---- MODULE Spec2Model ----
(***************************************************************************)
(* Write-through S3 proxy (k8s-s3-mirror): request dispatch, the detached  *)
(* inventory + mirror continuation, and the per-bucket inventory tables.   *)
(*                                                                         *)
(* Text (hosts, paths, bucket names, keys, header values) is a sequence of *)
(* one-character strings, so that the string operations of the source      *)
(* (HasPrefix, TrimSuffix, SplitN, ...) are computed, not assumed.         *)
(***************************************************************************)
EXTENDS Integers, Sequences, FiniteSets, TLC

VARIABLES
    proxyDomain,         \* PROXY_DOMAIN ("" when not configured)
    disableDatabase,     \* DISABLE_DATABASE, or no POSTGRES_URL
    mirrorBucketPrefix,  \* MIRROR_BUCKET_PREFIX
    db,                  \* the connection pool of main: "nil" or "open"
    nextReq,             \* number of inbound requests accepted so far
    handlers,            \* handleProxyRequest calls waiting for the primary
    sequential,          \* history: no request arrived while another was being handled
    w,                   \* the last finished handler: the primary's answer and what was written to the client
    tasks,               \* the goroutines spawned at `go func()`, in spawn order, with the mirror requests each sent
    tables,              \* inventory: table name -> [rows, seq]
    dbConnections,       \* registry of buckets whose table has been verified
    dbMutex,             \* 0 when unlocked, else the goroutine holding the lock
    created,             \* history: bucket -> number of CREATE TABLE statements that succeeded for it
    primaryStore,        \* the primary's objects: records [bucket, key, body]
    mirrorStore,         \* the mirror's objects: records [bucket, key, body]
    clock                \* logical time.Now() of the inventory statements

vars == <<proxyDomain, disableDatabase, mirrorBucketPrefix, db, nextReq, handlers,
          sequential, w, tasks, tables, dbConnections, dbMutex, created,
          primaryStore, mirrorStore, clock>>

----------------------------------------------------------------------------
(* Bounds *)

MaxReqs == 1          \* inbound requests in the dispatch specification
MaxKeyReqs == 3       \* inbound requests in the same-key specification
MaxLiveReqs == 2      \* inbound requests in the liveness specification
MaxBucketReqs == 2    \* inbound requests in the two-bucket specification
MaxWireReqs == 1      \* inbound requests in the signing specification
MaxParseReqs == 1     \* inbound requests in the addressing specification
MaxRegistryReqs == 2  \* inbound requests in the registry specification
MaxMutexReqs == 3     \* inbound requests in the lock specification
MaxTwoKeyReqs == 2    \* inbound requests in the two-key specification
MaxQueryReqs == 1     \* inbound requests in the query specification

----------------------------------------------------------------------------
(* Go's strings package over character sequences *)

Empty == << >>

HasPrefix(s, prefix) ==
    /\ Len(prefix) <= Len(s)
    /\ SubSeq(s, 1, Len(prefix)) = prefix

HasSuffix(s, suffix) ==
    /\ Len(suffix) <= Len(s)
    /\ SubSeq(s, Len(s) - Len(suffix) + 1, Len(s)) = suffix

TrimPrefix(s, prefix) ==
    IF HasPrefix(s, prefix) THEN SubSeq(s, Len(prefix) + 1, Len(s)) ELSE s

TrimSuffix(s, suffix) ==
    IF HasSuffix(s, suffix) THEN SubSeq(s, 1, Len(s) - Len(suffix)) ELSE s

\* strings.Index for a one-character separator: 0-based position, -1 if absent
Index(s, c) ==
    IF \E i \in 1..Len(s) : s[i] = c
    THEN (CHOOSE i \in 1..Len(s) : s[i] = c /\ \A j \in 1..(i - 1) : s[j] # c) - 1
    ELSE -1

\* strings.SplitN(s, sep, 2) for a one-character separator
SplitN2(s, c) ==
    LET i == Index(s, c) IN
    IF i < 0 THEN <<s>>
    ELSE <<SubSeq(s, 1, i), SubSeq(s, i + 2, Len(s))>>

\* strings.Split(s, sep) for a one-character separator
RECURSIVE Split(_, _)
Split(s, c) ==
    LET i == Index(s, c) IN
    IF i < 0 THEN <<s>>
    ELSE <<SubSeq(s, 1, i)>> \o Split(SubSeq(s, i + 2, Len(s)), c)

Digits == <<"0", "1", "2", "3", "4", "5", "6", "7", "8", "9">>

IsDigit(c) == \E d \in 1..10 : Digits[d] = c

\* strconv.Atoi on an unsigned decimal text: <<ok, value>>
RECURSIVE AtoiValue(_)
AtoiValue(s) ==
    IF s = Empty THEN 0
    ELSE 10 * AtoiValue(SubSeq(s, 1, Len(s) - 1)) + (CHOOSE d \in 1..10 : Digits[d] = s[Len(s)]) - 1

Atoi(s) ==
    IF s # Empty /\ \A i \in 1..Len(s) : IsDigit(s[i])
    THEN <<TRUE, AtoiValue(s)>>
    ELSE <<FALSE, 0>>

\* http.Header.Get: "" for an absent header
Get(header, name) == IF name \in DOMAIN header THEN header[name] ELSE Empty

----------------------------------------------------------------------------
(* Go strings whose bytes matter: header names, query strings, signatures *)

\* `value`, evaluated once, handed to Body: `x := value; Body(x)`
Bind(value, Body(_)) == CHOOSE r \in {Body(x) : x \in {value}} : TRUE

\* the characters of a Go string literal
Chars(s) == Empty \o [i \in 1..Len(s) |-> SubSeq(s, i, i)]

UpperCase == Chars("ABCDEFGHIJKLMNOPQRSTUVWXYZ")
LowerCase == Chars("abcdefghijklmnopqrstuvwxyz")

\* the bytes of the model's texts in increasing order of their value
Bytes == Chars(" %&+-./0123456789:;=?") \o UpperCase \o Chars("_") \o LowerCase \o Chars("~")

\* the position of a byte in that order
Ord == [c \in {Bytes[i] : i \in 1..Len(Bytes)} |-> CHOOSE i \in 1..Len(Bytes) : Bytes[i] = c]

\* unicode.ToLower on the bytes of the model's texts
Lower == [c \in DOMAIN Ord |->
             IF \E u \in 1..26 : UpperCase[u] = c
             THEN LowerCase[CHOOSE u \in 1..26 : UpperCase[u] = c]
             ELSE c]

\* strings.ToLower
ToLower(s) == Empty \o [i \in 1..Len(s) |-> Lower[s[i]]]

\* strings.TrimSpace
RECURSIVE TrimSpace(_)
TrimSpace(s) ==
    IF s = Empty THEN s
    ELSE IF s[1] = " " THEN TrimSpace(Tail(s))
    ELSE IF s[Len(s)] = " " THEN TrimSpace(SubSeq(s, 1, Len(s) - 1))
    ELSE s

\* a < b for Go strings: at the first byte where they differ, or a is a
\* proper prefix of b
Less(a, b) ==
    LET m == IF Len(a) < Len(b) THEN Len(a) ELSE Len(b) IN
    IF \E i \in 1..m : a[i] # b[i]
    THEN LET d == CHOOSE i \in 1..m : a[i] # b[i] /\ \A j \in 1..(i - 1) : a[j] = b[j]
         IN  Ord[a[d]] < Ord[b[d]]
    ELSE Len(a) < Len(b)

\* sort.Strings: each element goes to the position after the elements below
\* it and the equal elements before it
SortStrings(list) ==
    Bind(Empty \o list, LAMBDA l :
        Bind([j \in 1..Len(l) |->
                 1 + Cardinality({k \in 1..Len(l) :
                        Less(l[k], l[j]) \/ (k < j /\ l[k] = l[j])})],
             LAMBDA position :
                 Empty \o [i \in 1..Len(l) |-> l[CHOOSE j \in 1..Len(l) : position[j] = i]]))

RECURSIVE JoinFrom(_, _, _)
JoinFrom(list, sep, i) ==
    IF i > Len(list) THEN Empty
    ELSE IF i = Len(list) THEN list[i]
    ELSE list[i] \o sep \o JoinFrom(list, sep, i + 1)

\* strings.Join
Join(list, sep) == Bind(Empty \o list, LAMBDA l : JoinFrom(l, sep, 1))

\* the keys of a Go map in the order of one `range` over it
RECURSIVE Range(_)
Range(keys) ==
    IF keys = {} THEN << >>
    ELSE Bind(CHOOSE k \in keys : TRUE, LAMBDA k : <<k>> \o Range(keys \ {k}))

\* (mutant) Set leaves a header that is already there as it is
SetIfAbsent(header, name, value) ==
    [k \in DOMAIN header \cup {name} |-> IF k \in DOMAIN header THEN header[k] ELSE value]

\* http.Header.Set for a name in canonical form
Set(header, name, value) ==
    [k \in DOMAIN header \cup {name} |-> IF k = name THEN value ELSE header[k]]

----------------------------------------------------------------------------
(* Configuration and endpoints *)

S3Local == <<"s", "3", ".", "l", "o", "c", "a", "l">>

\* targetURL.Host of MAIN_S3_ENDPOINT and the host of MIRROR_S3_ENDPOINT
mainS3Host == <<"m", "a", "i", "n", ".", "i", "o">>
mirrorS3Host == <<"d", "r", ".", "i", "o">>

----------------------------------------------------------------------------
(* Addressing parser *)

PathStyleParse(urlPath) ==
    LET parts == SplitN2(TrimPrefix(urlPath, <<"/">>), "/") IN
    IF parts[1] = Empty THEN <<Empty, Empty>>
    ELSE IF Len(parts) = 1 THEN <<parts[1], Empty>>
    ELSE <<parts[1], parts[2]>>

StripPort(hostHeader) ==
    LET colonIndex == Index(hostHeader, ":") IN
    IF colonIndex > 0 THEN SubSeq(hostHeader, 1, colonIndex) ELSE hostHeader

\* extractBucketAndKey(urlPath, hostHeader) under proxy domain pd: <<bucket, key>>
extractBucketAndKey(urlPath, hostHeader, pd) ==
    LET host == StripPort(hostHeader) IN
    IF pd # Empty /\ HasSuffix(host, pd)
    THEN IF host = pd
         THEN PathStyleParse(urlPath)
         ELSE <<TrimSuffix(host, <<".">> \o pd), TrimPrefix(urlPath, <<"/">>)>>
    ELSE LET hostParts == Split(host, ".")
             bucket == hostParts[1]
             key == TrimPrefix(urlPath, <<"/">>)
         IN  IF Len(hostParts) >= 2 /\ bucket # Empty /\ key # Empty
             THEN <<bucket, key>>
             ELSE IF Len(hostParts) >= 2 /\ bucket # Empty /\ urlPath = <<"/">>
             THEN <<bucket, Empty>>
             ELSE PathStyleParse(urlPath)

\* The style the parser used for (urlPath, hostHeader): TRUE = virtual-hosted
ParsedVirtualHosted(urlPath, hostHeader, pd) ==
    LET host == StripPort(hostHeader) IN
    IF pd # Empty /\ HasSuffix(host, pd)
    THEN host # pd
    ELSE LET hostParts == Split(host, ".")
             bucket == hostParts[1]
             key == TrimPrefix(urlPath, <<"/">>)
         IN  /\ Len(hostParts) >= 2
             /\ bucket # Empty
             /\ (key # Empty \/ urlPath = <<"/">>)

----------------------------------------------------------------------------
(* URLs: url.URL.String() followed by the url.Parse inside http.NewRequest. *)
(* The alphabet of the model has no character that either step escapes.     *)

Scheme == <<"h", "t", "t", "p", "s", ":", "/", "/">>

URLString(u) ==
    Scheme \o u.Host
           \o (IF u.Path # Empty /\ u.Path[1] # "/" THEN <<"/">> ELSE Empty)
           \o u.Path
           \o (IF u.RawQuery # Empty THEN <<"?">> \o u.RawQuery ELSE Empty)

ParseURL(s) ==
    LET cut == SplitN2(TrimPrefix(s, Scheme), "?")
        rest == cut[1]
        query == IF Len(cut) = 2 THEN cut[2] ELSE Empty
        slash == Index(rest, "/")
    IN  IF slash < 0 THEN [Host |-> rest, Path |-> Empty, RawQuery |-> query]
        ELSE [Host |-> SubSeq(rest, 1, slash),
              Path |-> SubSeq(rest, slash + 1, Len(rest)),
              RawQuery |-> query]

\* http.NewRequest(method, url, body): Host is taken from the parsed URL and
\* the header of the new request is empty
NewRequest(method, u, body) ==
    LET parsed == ParseURL(URLString(u)) IN
    [Method |-> method, Host |-> parsed.Host, Path |-> parsed.Path,
     RawQuery |-> parsed.RawQuery, Header |-> << >>, Body |-> body]

----------------------------------------------------------------------------
(* Query strings: url.ParseQuery and url.QueryEscape *)

HexDigits == Chars("0123456789ABCDEFabcdef")

IsHex(c) == \E i \in 1..Len(HexDigits) : HexDigits[i] = c

\* the bytes of the model's texts that url.QueryEscape writes as %XX
PercentCode ==
    ("%" :> Chars("25")) @@ ("&" :> Chars("26")) @@ ("+" :> Chars("2B")) @@
    ("/" :> Chars("2F")) @@ (":" :> Chars("3A")) @@ (";" :> Chars("3B")) @@
    ("=" :> Chars("3D")) @@ ("?" :> Chars("3F"))

\* the upper-case form of a hexadecimal digit
UpperHex(c) ==
    IF \E u \in 1..6 : LowerCase[u] = c
    THEN UpperCase[CHOOSE u \in 1..6 : LowerCase[u] = c]
    ELSE c

\* url.QueryUnescape: <<ok, text>>; of the %XX codes the model has those of
\* PercentCode and %20, and its inputs use no other
RECURSIVE QueryUnescape(_)
QueryUnescape(s) ==
    IF s = Empty THEN <<TRUE, Empty>>
    ELSE IF s[1] = "%"
    THEN IF Len(s) < 3 \/ ~IsHex(s[2]) \/ ~IsHex(s[3]) THEN <<FALSE, Empty>>
         ELSE Bind(QueryUnescape(SubSeq(s, 4, Len(s))), LAMBDA rest :
                LET code == <<UpperHex(s[2]), UpperHex(s[3])>> IN
                IF code = Chars("20") THEN <<rest[1], <<" ">> \o rest[2]>>
                ELSE IF \E c \in DOMAIN PercentCode : PercentCode[c] = code
                THEN <<rest[1], <<CHOOSE c \in DOMAIN PercentCode : PercentCode[c] = code>>
                                    \o rest[2]>>
                ELSE <<FALSE, Empty>>)
    ELSE Bind(QueryUnescape(Tail(s)), LAMBDA rest :
            <<rest[1], <<IF s[1] = "+" THEN " " ELSE s[1]>> \o rest[2]>>)

\* url.QueryEscape
RECURSIVE QueryEscape(_)
QueryEscape(s) ==
    IF s = Empty THEN Empty
    ELSE (IF s[1] = " " THEN <<"+">>
          ELSE IF s[1] \in DOMAIN PercentCode THEN <<"%">> \o PercentCode[s[1]]
          ELSE <<s[1]>>) \o QueryEscape(Tail(s))

\* url.ParseQuery, as req.URL.Query() calls it: the <<key, value>> pairs in
\* the order of the query string, without the settings that do not parse
RECURSIVE ParsePairs(_)
ParsePairs(parts) ==
    IF parts = << >> THEN << >>
    ELSE LET part == Head(parts)
             kv == SplitN2(part, "=")
             key == QueryUnescape(kv[1])
             value == QueryUnescape(IF Len(kv) = 2 THEN kv[2] ELSE Empty)
         IN  (IF part = Empty \/ Index(part, ";") >= 0 \/ ~key[1] \/ ~value[1]
              THEN << >>
              ELSE << <<key[2], value[2]>> >>) \o ParsePairs(Tail(parts))

Query(rawQuery) == Bind(Split(rawQuery, "&"), LAMBDA parts : ParsePairs(parts))

----------------------------------------------------------------------------
(* AWS Signature Version 4 *)

\* MAIN_ACCESS_KEY, MAIN_SECRET_KEY, MIRROR_ACCESS_KEY, MIRROR_SECRET_KEY
mainAccessKey == Chars("AKMAIN")
mainSecretKey == Chars("SKMAIN")
mirrorAccessKey == Chars("AKMIRROR")
mirrorSecretKey == Chars("SKMIRROR")

\* time.Now().UTC() of a signature, in the two formats of the signer
dateStamp == Chars("20260101")
amzDate == Chars("20260101T000000Z")

\* sha256.Sum256 and hmac.New(sha256.New, key) as collision-free functions
\* of their arguments, and hex.EncodeToString of their results
Sum256(data) == Chars("sha256(") \o data \o Chars(")")
hmacSHA256(key, data) == Chars("hmac(") \o key \o Chars(",") \o data \o Chars(")")
EncodeToString(b) == Chars("hex(") \o b \o Chars(")")

getSigningKey(secretKey, date, region, service) ==
    LET kDate == hmacSHA256(Chars("AWS4") \o secretKey, date)
        kRegion == hmacSHA256(kDate, region)
        kService == hmacSHA256(kRegion, service)
    IN  hmacSHA256(kService, Chars("aws4_request"))

\* the test of createCanonicalHeaders and createSignedHeaders on a header name
isSignedName(k) ==
    LET lowerKey == ToLower(Chars(k)) IN
    \/ lowerKey = Chars("host")
    \/ HasPrefix(lowerKey, Chars("x-amz-"))
    \/ lowerKey = Chars("content-type")

\* (mutant) the block of the headers of req.Header alone, without the host
createCanonicalHeadersOfMap(req) ==
    LET names == {k \in DOMAIN req.Header : isSignedName(k)}
        lowerKeys == {ToLower(Chars(k)) : k \in names}
        headerMap == [lk \in lowerKeys |->
                        TrimSpace(req.Header[CHOOSE k \in names : ToLower(Chars(k)) = lk])]
    IN  Bind(SortStrings(Range(lowerKeys)), LAMBDA keys :
            Join([i \in 1..Len(keys) |-> keys[i] \o <<":">> \o headerMap[keys[i]]],
                 <<"\n">>) \o <<"\n">>)

createCanonicalHeaders(req) ==
    LET names == {k \in DOMAIN req.Header : isSignedName(k)}
        lowerKeys == {ToLower(Chars(k)) : k \in names} \cup {Chars("host")}
        headerMap == [lk \in lowerKeys |->
                        IF lk = Chars("host") THEN req.Host
                        ELSE TrimSpace(req.Header[CHOOSE k \in names : ToLower(Chars(k)) = lk])]
    IN  Bind(SortStrings(Range(lowerKeys)), LAMBDA keys :
            Join([i \in 1..Len(keys) |-> keys[i] \o <<":">> \o headerMap[keys[i]]],
                 <<"\n">>) \o <<"\n">>)

\* (mutant) the list of signed headers without the final "host"
createSignedHeadersOfMap(req) ==
    Bind(Range({k \in DOMAIN req.Header : isSignedName(k)}), LAMBDA names :
        Join(SortStrings([i \in 1..Len(names) |-> ToLower(Chars(names[i]))]), <<";">>))

createSignedHeaders(req) ==
    Bind(Range({k \in DOMAIN req.Header : isSignedName(k)}), LAMBDA names :
        Join(SortStrings([i \in 1..Len(names) |-> ToLower(Chars(names[i]))]
                         \o <<Chars("host")>>),
             <<";">>))

createCanonicalQueryString(req) ==
    Bind(Query(req.RawQuery), LAMBDA values :
        LET Of(k) == LET IsK(p) == p[1] = k
                         ps == SelectSeq(values, IsK)
                     IN  SortStrings([i \in 1..Len(ps) |-> ps[i][2]])
            parts(k) == Bind(Of(k), LAMBDA paramValues :
                            [i \in 1..Len(paramValues) |->
                                QueryEscape(k) \o <<"=">> \o QueryEscape(paramValues[i])])
        IN  Bind(SortStrings(Range({values[i][1] : i \in 1..Len(values)})), LAMBDA keys :
                Join([i \in 1..Len(keys) |-> Join(parts(keys[i]), <<"&">>)], <<"&">>)))

\* signRequestV4WithBucket: req after the call. The request with its date
\* and payload hash set is bound once, as the *http.Request the signer holds.
signRequestV4WithBucket(req, accessKey, secretKey, region, service, payload) ==
    LET payloadHashStr == EncodeToString(Sum256(payload))
        algorithm == Chars("AWS4-HMAC-SHA256")
        credentialScope == Join(<<dateStamp, region, service, Chars("aws4_request")>>, <<"/">>)
        authorizationHeader(dated) ==
            LET signedHeaders == createSignedHeaders(dated)
                canonicalURI == IF dated.Path = Empty THEN <<"/">> ELSE dated.Path
                canonicalRequest ==
                    Join(<<Chars(dated.Method), canonicalURI,
                           createCanonicalQueryString(dated),
                           createCanonicalHeaders(dated), signedHeaders,
                           payloadHashStr>>, <<"\n">>)
                stringToSign ==
                    Join(<<algorithm, amzDate, credentialScope,
                           EncodeToString(Sum256(canonicalRequest))>>, <<"\n">>)
                signature == hmacSHA256(getSigningKey(secretKey, dateStamp, region, service),
                                        stringToSign)
            IN  algorithm \o Chars(" Credential=") \o accessKey \o <<"/">> \o credentialScope
                          \o Chars(", SignedHeaders=") \o signedHeaders
                          \o Chars(", Signature=") \o EncodeToString(signature)
    IN  CHOOSE signed \in
            { [dated EXCEPT !.Header = Set(dated.Header, "Authorization",
                                           authorizationHeader(dated))] :
                dated \in { [r EXCEPT !.Header =
                                Set(Set(r.Header, "X-Amz-Date", amzDate),
                                    "X-Amz-Content-Sha256", payloadHashStr)] : r \in {req} } } :
            TRUE

usEast1 == Chars("us-east-1")
s3 == Chars("s3")

\* (mutant) every header of the inbound request is copied
isAnyName(k) == TRUE

\* the headers of the inbound request that are copied to an outbound request
isCopiedName(k) ==
    HasPrefix(Chars(k), Chars("Content-")) \/ HasPrefix(Chars(k), Chars("X-Amz-"))

copyHeaders(req, header) ==
    LET copied == {k \in DOMAIN header : isCopiedName(k)} IN
    [req EXCEPT !.Header = [k \in DOMAIN @ \cup copied |->
                               IF k \in copied THEN header[k] ELSE @[k]]]

----------------------------------------------------------------------------
(* Request dispatcher: construction of the forwarded request *)

isVirtualHosted(bucket, urlPath) ==
    bucket # Empty /\ ~HasPrefix(urlPath, <<"/">> \o bucket)

forwardURL(bucket, urlPath, rawQuery) ==
    IF isVirtualHosted(bucket, urlPath)
    THEN [Host |-> bucket \o <<".">> \o mainS3Host, Path |-> urlPath, RawQuery |-> rawQuery]
    ELSE [Host |-> mainS3Host, Path |-> urlPath, RawQuery |-> rawQuery]

\* the request handed to httpClient.Do: built, given the copied headers, signed
forwardReq(method, urlPath, rawQuery, header, bucket, body) ==
    signRequestV4WithBucket(
        copyHeaders(NewRequest(method, forwardURL(bucket, urlPath, rawQuery), body), header),
        mainAccessKey, mainSecretKey, usEast1, s3, body)

----------------------------------------------------------------------------
(* Inventory: table names and rows *)

IsAlnum(c) ==
    \/ c \in {"a", "b", "c", "d", "e", "f", "g", "h", "i", "j", "k", "l", "m",
               "n", "o", "p", "q", "r", "s", "t", "u", "v", "w", "x", "y", "z",
               "A", "B", "C", "D", "E", "F", "G", "H", "I", "J", "K", "L", "M",
               "N", "O", "P", "Q", "R", "S", "T", "U", "V", "W", "X", "Y", "Z"}
    \/ IsDigit(c)

\* regexp [^a-zA-Z0-9]+ replaced by "_": every maximal run becomes one "_"
RECURSIVE ReplaceAllString(_, _)
ReplaceAllString(s, inRun) ==
    IF s = Empty THEN Empty
    ELSE IF IsAlnum(Head(s)) THEN <<Head(s)>> \o ReplaceAllString(Tail(s), FALSE)
    ELSE IF inRun THEN ReplaceAllString(Tail(s), TRUE)
    ELSE <<"_">> \o ReplaceAllString(Tail(s), TRUE)

sanitizeDBName(name) ==
    <<"b", "u", "c", "k", "e", "t", "_">> \o ReplaceAllString(name, FALSE)

OctetStream == <<"a", "p", "p", "l", "i", "c", "a", "t", "i", "o", "n", "/",
                 "o", "c", "t", "e", "t", "-", "s", "t", "r", "e", "a", "m">>

TextPlain == <<"t", "e", "x", "t", "/", "p", "l", "a", "i", "n">>

\* (mutant) the size is the length of the body whatever the response says
fileSizeOfBody(body, header) == Len(body)

\* size recorded by handlePutRequest
fileSize(body, header) ==
    LET contentLength == Get(header, "Content-Length")
        cl == Atoi(contentLength)
    IN  IF contentLength # Empty /\ cl[1] THEN cl[2] ELSE Len(body)

\* content type recorded by handlePutRequest
fileContentType(header) ==
    IF Get(header, "Content-Type") = Empty THEN OctetStream
    ELSE Get(header, "Content-Type")

RowsOf(table) == IF table \in DOMAIN tables THEN tables[table].rows ELSE {}

\* (mutant) a plain INSERT, without the ON CONFLICT (path) clause
UpsertInsertOnly(table, key, size, contentType, now, gen) ==
    LET t == tables[table] IN
    [rows |-> t.rows \cup
          {[id |-> t.seq, path |-> key, size |-> size,
            content_type |-> contentType, is_backed_up |-> FALSE,
            last_modified |-> now, deleted |-> FALSE, gen |-> gen]},
     seq |-> t.seq + 1]

\* INSERT ... ON CONFLICT (path) DO UPDATE SET ...; gen is a history field
\* naming the task whose record_put last wrote the row
Upsert(table, key, size, contentType, now, gen) ==
    LET t == tables[table]
        hit == {r \in t.rows : r.path = key}
        set(r) == [r EXCEPT !.size = size, !.content_type = contentType,
                            !.is_backed_up = FALSE, !.last_modified = now,
                            !.deleted = FALSE, !.gen = gen]
    IN  IF hit = {}
        THEN [rows |-> t.rows \cup
                  {[id |-> t.seq, path |-> key, size |-> size,
                    content_type |-> contentType, is_backed_up |-> FALSE,
                    last_modified |-> now, deleted |-> FALSE, gen |-> gen]},
              seq |-> t.seq + 1]
        ELSE [rows |-> (t.rows \ hit) \cup {set(r) : r \in hit},
              seq |-> t.seq + 1]

\* (mutant) the SET list of the upsert reused: the row is also undeleted
UpdateBackedUpClearsDeleted(table, key) ==
    [tables[table] EXCEPT !.rows =
        {IF r.path = key THEN [r EXCEPT !.is_backed_up = TRUE, !.deleted = FALSE]
         ELSE r : r \in @}]

\* (mutant) the WHERE clause is given the URL path instead of the key
UpdateBackedUpByURLPath(table, key) ==
    [tables[table] EXCEPT !.rows =
        {IF r.path = <<"/">> \o key THEN [r EXCEPT !.is_backed_up = TRUE] ELSE r : r \in @}]

\* UPDATE ... SET is_backed_up = true WHERE path = $1
UpdateBackedUp(table, key) ==
    [tables[table] EXCEPT !.rows =
        {IF r.path = key THEN [r EXCEPT !.is_backed_up = TRUE] ELSE r : r \in @}]

\* (mutant) a DELETE of an unknown path leaves a tombstone row
UpdateDeletedInsertsRow(table, key, now) ==
    LET t == tables[table] IN
    IF \E r \in t.rows : r.path = key
    THEN [t EXCEPT !.rows =
            {IF r.path = key THEN [r EXCEPT !.deleted = TRUE, !.last_modified = now]
             ELSE r : r \in @}]
    ELSE [rows |-> t.rows \cup
              {[id |-> t.seq, path |-> key, size |-> 0, content_type |-> OctetStream,
                is_backed_up |-> FALSE, last_modified |-> now, deleted |-> TRUE, gen |-> 0]},
          seq |-> t.seq + 1]

\* (mutant) the SET list of the upsert reused: the row needs a backup again
UpdateDeletedClearsBackedUp(table, key, now) ==
    [tables[table] EXCEPT !.rows =
        {IF r.path = key
         THEN [r EXCEPT !.deleted = TRUE, !.last_modified = now, !.is_backed_up = FALSE]
         ELSE r : r \in @}]

\* (mutant) the UPDATE has no WHERE clause
UpdateDeletedAnyPath(table, key, now) ==
    [tables[table] EXCEPT !.rows =
        {[r EXCEPT !.deleted = TRUE, !.last_modified = now] : r \in @}]

\* UPDATE ... SET deleted = true, last_modified = $1 WHERE path = $2
UpdateDeleted(table, key, now) ==
    [tables[table] EXCEPT !.rows =
        {IF r.path = key THEN [r EXCEPT !.deleted = TRUE, !.last_modified = now]
         ELSE r : r \in @}]

----------------------------------------------------------------------------
(* Mirror writer: construction of the replayed request *)

mirrorBucketOf(bucket, prefix) ==
    IF prefix # Empty THEN prefix \o bucket ELSE bucket

mirrorURL(bucket, key, virtual, prefix) ==
    IF virtual
    THEN [Host |-> mirrorBucketOf(bucket, prefix) \o <<".">> \o mirrorS3Host,
          Path |-> IF key # Empty THEN <<"/">> \o key ELSE <<"/">>,
          RawQuery |-> Empty]
    ELSE [Host |-> mirrorS3Host,
          Path |-> <<"/">> \o mirrorBucketOf(bucket, prefix) \o <<"/">> \o key,
          RawQuery |-> Empty]

\* the request handed to httpClient.Do: built, given the copied headers, signed
mirrorReq(bucket, key, method, body, headers, virtual, prefix) ==
    signRequestV4WithBucket(
        copyHeaders(NewRequest(method, mirrorURL(bucket, key, virtual, prefix), body), headers),
        mirrorAccessKey, mirrorSecretKey, usEast1, s3, body)

\* the error result of mirrorToBackupS3 for an outcome of httpClient.Do
mirrorFailed(outcome) == outcome.err \/ outcome.StatusCode >= 300

----------------------------------------------------------------------------
(* The object stores behind the two endpoints *)

\* the object a request addresses at the endpoint: <<bucket, key>>
\* (path-style endpoint/bucket/key, virtual-hosted bucket.endpoint/key)
objectOf(req, endpointHost) ==
    IF req.Host = endpointHost THEN PathStyleParse(req.Path)
    ELSE IF HasSuffix(req.Host, <<".">> \o endpointHost)
    THEN <<TrimSuffix(req.Host, <<".">> \o endpointHost), TrimPrefix(req.Path, <<"/">>)>>
    ELSE <<Empty, Empty>>

\* the store after the endpoint has answered 2xx to req: a PUT writes the
\* object, a DELETE removes it, other methods leave the objects as they are
applyToStore(store, req, endpointHost) ==
    LET o == objectOf(req, endpointHost)
        others == {x \in store : x.bucket # o[1] \/ x.key # o[2]}
    IN
    IF req.Method = "PUT"
    THEN others \cup {[bucket |-> o[1], key |-> o[2], body |-> req.Body]}
    ELSE IF req.Method = "DELETE"
    THEN others
    ELSE store

----------------------------------------------------------------------------
(* Initial state *)

PostgresURL == <<"p", "g">>

\* init: the value of disableDatabase for the environment's DISABLE_DATABASE
\* and POSTGRES_URL
initDisableDatabase(envDisableDatabase, envPostgresURL) ==
    IF envDisableDatabase = "true" THEN TRUE
    ELSE envPostgresURL = Empty

DatabaseModes ==
    { initDisableDatabase(d, u) : d \in {"true", "false"}, u \in {Empty, PostgresURL} }

NoResponse == [StatusCode |-> 0, Header |-> << >>, Body |-> Empty]

InitWith(domains, dbModes, prefixes) ==
    /\ proxyDomain \in domains
    /\ disableDatabase \in dbModes
    /\ mirrorBucketPrefix \in prefixes
    /\ db = IF disableDatabase THEN "nil" ELSE "open"
    /\ nextReq = 0
    /\ handlers = {}
    /\ sequential = TRUE
    /\ w = [err |-> TRUE, resp |-> NoResponse, StatusCode |-> 0, Header |-> << >>, Body |-> Empty]
    /\ tasks = << >>
    /\ tables = << >>
    /\ dbConnections = {}
    /\ dbMutex = 0
    /\ created = << >>
    /\ primaryStore = {}
    /\ mirrorStore = {}
    /\ clock = 0

config == <<proxyDomain, disableDatabase, mirrorBucketPrefix, db>>
inventory == <<tables, dbConnections, clock>>
registry == <<dbMutex, created>>

----------------------------------------------------------------------------
(* handleProxyRequest, up to the round trip to the primary *)

handleProxyRequestBegin(limit, method, host, urlPath, rawQuery, header, body) ==
    LET bk == extractBucketAndKey(urlPath, host, proxyDomain) IN
    /\ nextReq < limit
    /\ nextReq' = nextReq + 1
    /\ handlers' = handlers \cup
          {[id |-> nextReq + 1, Method |-> method, Host |-> host, Path |-> urlPath,
            RawQuery |-> rawQuery, Header |-> header, bodyBytes |-> body, bucket |-> bk[1], key |-> bk[2],
            isVirtualHosted |-> isVirtualHosted(bk[1], urlPath),
            forwardReq |-> forwardReq(method, urlPath, rawQuery, header, bk[1], body),
            cancelled |-> FALSE]}
    /\ sequential' = (sequential /\ handlers = {})
    /\ UNCHANGED <<config, w, tasks, inventory, registry, primaryStore, mirrorStore>>

\* The client of handler h goes away while httpClient.Do(forwardReq) is
\* running: the context of req is cancelled. forwardReq was made by
\* http.NewRequest and carries no context of req, so nothing else changes.
cancel(h) ==
    /\ h \in handlers
    /\ ~h.cancelled
    /\ handlers' = (handlers \ {h}) \cup {[h EXCEPT !.cancelled = TRUE]}
    /\ UNCHANGED <<config, nextReq, sequential, w, tasks, inventory, registry,
                   primaryStore, mirrorStore>>

\* (mutant) the goroutine goes to the mirror writer whatever the configuration
taskStartSkipsInventory(method) ==
    IF method \in {"PUT", "POST", "DELETE"} THEN "mirror" ELSE "done"

\* (mutant) the goroutine goes to the inventory whatever the configuration
taskStartIgnoresDisable(method) ==
    IF method \in {"PUT", "POST", "DELETE"} THEN "getOrCreateBucketDB" ELSE "done"

\* the goroutine started at `go func()`: where it begins. handleDeleteRequest
\* is not passed bodyBytes and resp, so a DELETE task holds neither.
taskStart(method) ==
    IF method \in {"PUT", "POST", "DELETE"}
    THEN IF disableDatabase THEN "mirror" ELSE "getOrCreateBucketDB"
    ELSE "done"

BadGateway == <<"Failed to forward request to S3">>
ErrorHeader == ("Content-Type" :> <<"text/plain; charset=utf-8">>)
               @@ ("X-Content-Type-Options" :> <<"nosniff">>)

\* (mutant) a transport error is reported as an internal error
writeInternalError ==
    [err |-> TRUE, resp |-> NoResponse, StatusCode |-> 500,
     Header |-> ErrorHeader, Body |-> BadGateway]

\* http.Error(w, "Failed to forward request to S3", http.StatusBadGateway)
writeBadGateway ==
    [err |-> TRUE, resp |-> NoResponse, StatusCode |-> 502,
     Header |-> ErrorHeader, Body |-> BadGateway]

\* (mutant) the background work is started whatever the parser returned
spawnsTaskUnaddressed(h, resp) ==
    resp.StatusCode >= 200 /\ resp.StatusCode < 300

\* (mutant) the background work is started whatever the primary's status
spawnsTaskAnyStatus(h, resp) ==
    h.bucket # Empty /\ h.key # Empty

\* the condition of `go func()`
spawnsTask(h, resp) ==
    /\ resp.StatusCode >= 200 /\ resp.StatusCode < 300
    /\ h.bucket # Empty /\ h.key # Empty

\* (mutant) a primary error is turned into 502 with the proxy's own message
writeResponseMasksErrors(resp) ==
    IF resp.StatusCode >= 400
    THEN [err |-> FALSE, resp |-> resp, StatusCode |-> 502,
          Header |-> ErrorHeader, Body |-> BadGateway]
    ELSE [err |-> FALSE, resp |-> resp, StatusCode |-> resp.StatusCode,
          Header |-> [k \in DOMAIN resp.Header |-> resp.Header[k]],
          Body |-> resp.Body]

\* (mutant) the goroutine is started before the body is written
writeResponseDefersBody(resp) ==
    [err |-> FALSE, resp |-> resp, StatusCode |-> resp.StatusCode,
     Header |-> [k \in DOMAIN resp.Header |-> resp.Header[k]],
     Body |-> Empty]

\* copy of the response headers, WriteHeader(resp.StatusCode), Write(respBody)
writeResponse(resp) ==
    [err |-> FALSE, resp |-> resp, StatusCode |-> resp.StatusCode,
     Header |-> [k \in DOMAIN resp.Header |-> resp.Header[k]],
     Body |-> resp.Body]

newTask(h, resp) ==
    [method |-> h.Method, bucket |-> h.bucket, key |-> h.key,
     req |-> [Host |-> h.Host, Path |-> h.Path, RawQuery |-> h.RawQuery,
              Header |-> h.Header],
     body |-> IF h.Method = "DELETE" THEN Empty ELSE h.bodyBytes,
     header |-> IF h.Method = "DELETE" THEN << >> ELSE resp.Header,
     status |-> resp.StatusCode,
     isVirtualHosted |-> h.isVirtualHosted, pc |-> taskStart(h.Method),
     failed |-> "", mirror |-> "none", sent |-> << >>]

(* handleProxyRequest, from the result of httpClient.Do to its return *)
handleProxyRequestEnd(h, outcome) ==
    /\ h \in handlers
    /\ handlers' = handlers \ {h}
    /\ IF outcome.err
       THEN /\ w' = writeBadGateway
            /\ tasks' = tasks
       ELSE LET resp == [StatusCode |-> outcome.StatusCode,
                         Header |-> outcome.Header, Body |-> outcome.Body]
                go == IF spawnsTask(h, resp) THEN <<newTask(h, resp)>> ELSE << >>
            IN  /\ w' = writeResponse(resp)
                /\ tasks' = tasks \o go
    /\ primaryStore' = IF ~outcome.err /\ outcome.StatusCode >= 200 /\ outcome.StatusCode < 300
                       THEN applyToStore(primaryStore, h.forwardReq, mainS3Host)
                       ELSE primaryStore
    /\ UNCHANGED <<config, nextReq, sequential, inventory, registry, mirrorStore>>

----------------------------------------------------------------------------
(* The goroutine: handlePutRequest and handleDeleteRequest *)

IsPut(t) == t.method \in {"PUT", "POST"}

\* one more successful CREATE TABLE for the bucket
Counted(count, bucket) ==
    [b \in DOMAIN count \cup {bucket} |->
        (IF b \in DOMAIN count THEN count[b] ELSE 0) + (IF b = bucket THEN 1 ELSE 0)]

\* (mutant) the bucket is entered in the registry before CREATE TABLE is run
getOrCreateBucketDBRegistersFirst(i, ok) ==
    LET t == tasks[i]
        tableName == sanitizeDBName(t.bucket)
    IN  /\ t.pc = "getOrCreateBucketDB"
        /\ ~disableDatabase
        /\ dbConnections' = dbConnections \cup {t.bucket}
        /\ IF t.bucket \in dbConnections \/ ok
           THEN /\ tables' = IF t.bucket \in dbConnections THEN tables
                             ELSE [n \in DOMAIN tables \cup {tableName} |->
                                     IF n \in DOMAIN tables THEN tables[n]
                                     ELSE [rows |-> {}, seq |-> 1]]
                /\ created' = IF t.bucket \in dbConnections THEN created
                              ELSE Counted(created, t.bucket)
                /\ tasks' = [tasks EXCEPT ![i].pc = IF IsPut(t) THEN "record_put" ELSE "record_delete"]
           ELSE /\ UNCHANGED <<tables, created>>
                /\ tasks' = [tasks EXCEPT ![i].pc = "done", ![i].failed = "ensure_bucket"]
        /\ UNCHANGED <<config, nextReq, handlers, sequential, w, dbMutex, primaryStore, mirrorStore, clock>>

\* getOrCreateBucketDB(bucket), the whole critical section of dbMutex
getOrCreateBucketDB(i, ok) ==
    LET t == tasks[i]
        tableName == sanitizeDBName(t.bucket)
    IN  /\ t.pc = "getOrCreateBucketDB"
        /\ IF disableDatabase
           THEN /\ tasks' = [tasks EXCEPT ![i].pc = "done", ![i].failed = "ensure_bucket"]
                /\ UNCHANGED <<tables, dbConnections, created>>
           ELSE IF t.bucket \in dbConnections
           THEN /\ ok
                /\ dbMutex = 0
                /\ tasks' = [tasks EXCEPT ![i].pc = IF IsPut(t) THEN "record_put" ELSE "record_delete"]
                /\ UNCHANGED <<tables, dbConnections, created>>
           ELSE IF ok
           THEN /\ dbMutex = 0
                /\ tables' = [n \in DOMAIN tables \cup {tableName} |->
                                 IF n \in DOMAIN tables THEN tables[n]
                                 ELSE [rows |-> {}, seq |-> 1]]
                /\ created' = Counted(created, t.bucket)
                /\ dbConnections' = dbConnections \cup {t.bucket}
                /\ tasks' = [tasks EXCEPT ![i].pc = IF IsPut(t) THEN "record_put" ELSE "record_delete"]
           ELSE /\ dbMutex = 0
                /\ tasks' = [tasks EXCEPT ![i].pc = "done", ![i].failed = "ensure_bucket"]
                /\ UNCHANGED <<tables, dbConnections, created>>
        /\ UNCHANGED <<config, nextReq, handlers, sequential, w, dbMutex, primaryStore, mirrorStore, clock>>

\* getOrCreateBucketDB step by step. (mutant) Lock returns without waiting
LockWithoutWaiting(i) ==
    /\ tasks[i].pc = "getOrCreateBucketDB"
    /\ ~disableDatabase
    /\ dbMutex' = i
    /\ tasks' = [tasks EXCEPT ![i].pc = "locked"]
    /\ UNCHANGED <<config, nextReq, handlers, sequential, w, inventory, created,
                   primaryStore, mirrorStore>>

\* dbMutex.Lock(): returns once no goroutine holds the lock
Lock(i) ==
    /\ tasks[i].pc = "getOrCreateBucketDB"
    /\ ~disableDatabase
    /\ dbMutex = 0
    /\ dbMutex' = i
    /\ tasks' = [tasks EXCEPT ![i].pc = "locked"]
    /\ UNCHANGED <<config, nextReq, handlers, sequential, w, inventory, created,
                   primaryStore, mirrorStore>>

\* under the lock: the registry lookup and, on a miss, CREATE TABLE IF NOT
\* EXISTS; the two returns run the deferred Unlock
verifyTable(i, ok) ==
    LET t == tasks[i]
        tableName == sanitizeDBName(t.bucket)
    IN  /\ t.pc = "locked"
        /\ IF t.bucket \in dbConnections
           THEN /\ tasks' = [tasks EXCEPT ![i].pc = IF IsPut(t) THEN "record_put" ELSE "record_delete"]
                /\ dbMutex' = 0
                /\ UNCHANGED <<tables, created>>
           ELSE IF ok
           THEN /\ tables' = [n \in DOMAIN tables \cup {tableName} |->
                                 IF n \in DOMAIN tables THEN tables[n]
                                 ELSE [rows |-> {}, seq |-> 1]]
                /\ created' = Counted(created, t.bucket)
                /\ tasks' = [tasks EXCEPT ![i].pc = "created"]
                /\ dbMutex' = dbMutex
           ELSE /\ tasks' = [tasks EXCEPT ![i].pc = "done", ![i].failed = "ensure_bucket"]
                /\ dbMutex' = 0
                /\ UNCHANGED <<tables, created>>
        /\ UNCHANGED <<config, nextReq, handlers, sequential, w, dbConnections,
                       primaryStore, mirrorStore, clock>>

\* under the lock: the index statements, whose errors are only logged, the
\* registry entry, and the return with its deferred Unlock
register(i) ==
    LET t == tasks[i]
    IN  /\ t.pc = "created"
        /\ dbConnections' = dbConnections \cup {t.bucket}
        /\ dbMutex' = 0
        /\ tasks' = [tasks EXCEPT ![i].pc = IF IsPut(t) THEN "record_put" ELSE "record_delete"]
        /\ UNCHANGED <<config, nextReq, handlers, sequential, w, tables, created,
                       primaryStore, mirrorStore, clock>>

\* handlePutRequest: the INSERT ... ON CONFLICT statement
record_put(i, ok) ==
    LET t == tasks[i]
        tableName == sanitizeDBName(t.bucket)
    IN  /\ t.pc = "record_put"
        /\ IF ok /\ tableName \in DOMAIN tables
           THEN /\ clock' = clock + 1
                /\ tables' = [tables EXCEPT ![tableName] =
                       Upsert(tableName, t.key, fileSize(t.body, t.header),
                              fileContentType(t.header), clock + 1, i)]
                /\ tasks' = [tasks EXCEPT ![i].pc = "mirror"]
           ELSE /\ tasks' = [tasks EXCEPT ![i].pc = "done", ![i].failed = "record_put"]
                /\ UNCHANGED <<tables, clock>>
        /\ UNCHANGED <<config, nextReq, handlers, sequential, w, dbConnections, registry, primaryStore, mirrorStore>>

\* handleDeleteRequest: the UPDATE ... SET deleted = true statement
record_delete(i, ok) ==
    LET t == tasks[i]
        tableName == sanitizeDBName(t.bucket)
    IN  /\ t.pc = "record_delete"
        /\ IF ok /\ tableName \in DOMAIN tables
           THEN /\ clock' = clock + 1
                /\ tables' = [tables EXCEPT ![tableName] =
                       UpdateDeleted(tableName, t.key, clock + 1)]
                /\ tasks' = [tasks EXCEPT ![i].pc = "mirror"]
           ELSE /\ tasks' = [tasks EXCEPT ![i].pc = "done", ![i].failed = "record_delete"]
                /\ UNCHANGED <<tables, clock>>
        /\ UNCHANGED <<config, nextReq, handlers, sequential, w, dbConnections, registry, primaryStore, mirrorStore>>

\* the requests one httpClient.Do(req) puts on the wire. The client is built
\* without CheckRedirect, so a 307 answer is followed: the request is sent
\* again, with its method, headers and body, to the Location of the answer.
\* An outcome is the last answer; it carries the Location it was reached by.
Do(req, outcome) ==
    IF "Location" \in DOMAIN outcome
    THEN <<req, [req EXCEPT !.Path = outcome.Location]>>
    ELSE <<req>>

\* mirrorToBackupS3 as called by the goroutine, and the branch on its result
mirrorToBackupS3(i, outcome) ==
    LET t == tasks[i]
        err == mirrorFailed(outcome)
    IN  /\ t.pc = "mirror"
        /\ \E req \in { IF IsPut(t)
                         THEN mirrorReq(t.bucket, t.key, t.method, t.body, t.req.Header,
                                        t.isVirtualHosted, mirrorBucketPrefix)
                         ELSE mirrorReq(t.bucket, t.key, "DELETE", Empty, t.req.Header,
                                        t.isVirtualHosted, mirrorBucketPrefix) } :
               /\ tasks' = [tasks EXCEPT
                      ![i].sent = @ \o [n \in 1..Len(Do(req, outcome)) |->
                                           [req |-> Do(req, outcome)[n], ok |-> ~err]],
                      ![i].mirror = IF err THEN "failed" ELSE "ok",
                      ![i].pc = IF ~err /\ IsPut(t) /\ ~disableDatabase
                                THEN "mark_backed_up" ELSE "done"]
               /\ mirrorStore' = IF err THEN mirrorStore
                                 ELSE applyToStore(mirrorStore, tasks'[i].sent[1].req, mirrorS3Host)
        /\ UNCHANGED <<config, nextReq, handlers, sequential, w, inventory, registry, primaryStore>>

\* handlePutRequest: the UPDATE ... SET is_backed_up = true statement
mark_backed_up(i, ok) ==
    LET t == tasks[i]
        tableName == sanitizeDBName(t.bucket)
    IN  /\ t.pc = "mark_backed_up"
        /\ IF ok /\ tableName \in DOMAIN tables
           THEN /\ tables' = [tables EXCEPT ![tableName] = UpdateBackedUp(tableName, t.key)]
                /\ tasks' = [tasks EXCEPT ![i].pc = "done"]
           ELSE /\ tables' = tables
                /\ tasks' = [tasks EXCEPT ![i].pc = "done", ![i].failed = "mark_backed_up"]
        /\ UNCHANGED <<config, nextReq, handlers, sequential, w, dbConnections, registry, primaryStore, mirrorStore, clock>>

----------------------------------------------------------------------------
(* Inputs *)

BucketHost == <<"b", ".">> \o S3Local

\* <<Host header, URL path>> of the inbound requests
HostPaths ==
    { <<S3Local, <<"/", "b", "/", "k">> >>,        \* path-style b, k
      <<BucketHost, <<"/", "k">> >>,               \* virtual-hosted b, k
      <<BucketHost, <<"/", "b", "/", "k">> >>,     \* virtual-hosted b, b/k
      <<S3Local, <<"/">> >> }                      \* no bucket

\* <<req.Header, body>> of the inbound requests
ContentTypeText == ("Content-Type" :> TextPlain)

Payloads == { << << >>, Empty >>, << ContentTypeText, <<"h", "i">> >> }

PrimaryOutcomes ==
    { [err |-> TRUE, StatusCode |-> 0, Header |-> << >>, Body |-> Empty],
      [err |-> FALSE, StatusCode |-> 200, Header |-> << >>, Body |-> Empty],
      [err |-> FALSE, StatusCode |-> 200,
       Header |-> ("Content-Length" :> <<"5">>) @@ ("Content-Type" :> TextPlain),
       Body |-> <<"h", "e", "l", "l", "o">>],
      [err |-> FALSE, StatusCode |-> 500, Header |-> ("Content-Type" :> TextPlain),
       Body |-> <<"E">>] }

\* results of a database/sql Exec: TRUE = no error
DbResults == BOOLEAN

\* results of httpClient.Do(req) against the mirror
MirrorOutcomes ==
    { [err |-> TRUE, StatusCode |-> 0],
      [err |-> FALSE, StatusCode |-> 200],
      [err |-> FALSE, StatusCode |-> 500] }

----------------------------------------------------------------------------
(* Dispatch specification: any request, any answer, failing collaborators *)

\* values of MIRROR_BUCKET_PREFIX
Prefixes == { Empty, <<"m", "-">> }

Init == InitWith({Empty, S3Local}, DatabaseModes, Prefixes)

Receive ==
    \E method \in {"GET", "PUT", "POST", "DELETE"}, hp \in HostPaths, payload \in Payloads :
        handleProxyRequestBegin(MaxReqs, method, hp[1], hp[2], Empty, payload[1], payload[2])

Respond ==
    \E h \in handlers, outcome \in PrimaryOutcomes : handleProxyRequestEnd(h, outcome)

EnsureBucket == \E i \in 1..Len(tasks), ok \in DbResults : getOrCreateBucketDB(i, ok)

RecordPut == \E i \in 1..Len(tasks), ok \in DbResults : record_put(i, ok)

RecordDelete == \E i \in 1..Len(tasks), ok \in DbResults : record_delete(i, ok)

Mirror == \E i \in 1..Len(tasks), outcome \in MirrorOutcomes : mirrorToBackupS3(i, outcome)

MarkBackedUp == \E i \in 1..Len(tasks), ok \in DbResults : mark_backed_up(i, ok)

Next ==
    \/ Receive
    \/ Respond
    \/ EnsureBucket
    \/ RecordPut
    \/ RecordDelete
    \/ Mirror
    \/ MarkBackedUp

Spec == Init /\ [][Next]_vars

----------------------------------------------------------------------------
(* Same-key specification: PUT and DELETE of one object, all answered 2xx  *)
(* by the primary, inventory statements succeeding, mirror may fail.       *)

\* <<method, req.Header, body>> of the inbound requests for /b/k
KeyRequests ==
    { <<"PUT", ContentTypeText, <<"h", "i">> >>, <<"DELETE", << >>, Empty>> }

KeyMirrorOutcomes ==
    { [err |-> FALSE, StatusCode |-> 200], [err |-> FALSE, StatusCode |-> 500] }

KeyInit == InitWith({S3Local}, {FALSE}, {Empty})

KeyReceive ==
    \E rq \in KeyRequests :
        handleProxyRequestBegin(MaxKeyReqs, rq[1], S3Local, <<"/", "b", "/", "k">>, Empty,
                                rq[2], rq[3])

KeyRespond ==
    \E h \in handlers,
       outcome \in { [err |-> FALSE, StatusCode |-> 200, Header |-> << >>, Body |-> Empty],
                     [err |-> FALSE, StatusCode |-> 200,
                      Header |-> ("Content-Length" :> <<"5">>) @@ ("Content-Type" :> TextPlain),
                      Body |-> Empty] } :
        handleProxyRequestEnd(h, outcome)

KeyEnsureBucket == \E i \in 1..Len(tasks) : getOrCreateBucketDB(i, TRUE)

KeyRecordPut == \E i \in 1..Len(tasks) : record_put(i, TRUE)

KeyRecordDelete == \E i \in 1..Len(tasks) : record_delete(i, TRUE)

KeyMirror == \E i \in 1..Len(tasks), outcome \in KeyMirrorOutcomes : mirrorToBackupS3(i, outcome)

KeyMarkBackedUp == \E i \in 1..Len(tasks) : mark_backed_up(i, TRUE)

KeyNext ==
    \/ KeyReceive
    \/ KeyRespond
    \/ KeyEnsureBucket
    \/ KeyRecordPut
    \/ KeyRecordDelete
    \/ KeyMirror
    \/ KeyMarkBackedUp

KeySpec == KeyInit /\ [][KeyNext]_vars

----------------------------------------------------------------------------
(* Liveness specification: PUTs of one object, all answered 2xx, with     *)
(* failing inventory statements and the inventory on or off. Every        *)
(* started handler gets its answer (the client times out after 60 s) and   *)
(* the goroutines are scheduled as long as one of them has not returned.   *)

LiveReceive ==
    handleProxyRequestBegin(MaxLiveReqs, "PUT", S3Local, <<"/", "b", "/", "k">>, Empty,
                            ContentTypeText, <<"h", "i">>)

LiveRespond ==
    \E h \in handlers,
       outcome \in { [err |-> FALSE, StatusCode |-> 200, Header |-> << >>, Body |-> Empty] } :
        handleProxyRequestEnd(h, outcome)

LiveMirror == \E i \in 1..Len(tasks), outcome \in KeyMirrorOutcomes : mirrorToBackupS3(i, outcome)

LiveNext ==
    \/ LiveReceive
    \/ LiveRespond
    \/ EnsureBucket
    \/ RecordPut
    \/ LiveMirror
    \/ MarkBackedUp

\* a step of some goroutine
LiveSpec ==
    /\ InitWith({S3Local}, DatabaseModes, {Empty})
    /\ [][LiveNext]_vars
    /\ WF_vars(LiveRespond)
    /\ WF_vars(EnsureBucket \/ RecordPut \/ LiveMirror \/ MarkBackedUp)

----------------------------------------------------------------------------
(* Two-bucket specification: PUT and DELETE of key k in the buckets a.b    *)
(* and a-b, sent path-style, all answered 2xx, inventory statements        *)
(* succeeding.                                                             *)

BucketNext ==
    \/ \E rq \in KeyRequests,
          urlPath \in { <<"/", "a", ".", "b", "/", "k">>, <<"/", "a", "-", "b", "/", "k">> } :
           handleProxyRequestBegin(MaxBucketReqs, rq[1], S3Local, urlPath, Empty, rq[2], rq[3])
    \/ LiveRespond
    \/ KeyEnsureBucket
    \/ KeyRecordPut
    \/ KeyRecordDelete
    \/ KeyMirror
    \/ KeyMarkBackedUp

BucketSpec == KeyInit /\ [][BucketNext]_vars

----------------------------------------------------------------------------
(* Signing specification: one request with or without a query string and  *)
(* with or without client headers, the inventory disabled, so that every   *)
(* 2xx PUT and DELETE of an object goes straight to the mirror writer.     *)

\* req.Header of a signed client request that also carries a cookie
WireHeader ==
    ("Authorization" :> Chars("AWS4-HMAC-SHA256 Credential=dummy")) @@
    ("Content-Type" :> TextPlain) @@
    ("Cookie" :> Chars("c=1")) @@
    ("X-Amz-Content-Sha256" :> Chars("UNSIGNED-PAYLOAD")) @@
    ("X-Amz-Meta-A" :> Chars("1"))

WireNext ==
    \* inbound requests: <<Host header, URL path>> path-style b, k; virtual-hosted
    \* b, k; bucket b without key; no bucket; req.URL.RawQuery; <<req.Header, body>>
    \/ \E method \in {"GET", "PUT", "DELETE"},
          hp \in { <<S3Local, <<"/", "b", "/", "k">> >>,
                   <<BucketHost, <<"/", "k">> >>,
                   <<S3Local, <<"/", "b">> >>,
                   <<S3Local, <<"/">> >> },
          rawQuery \in { Empty, Chars("tagging") },
          payload \in { << << >>, Empty >>, << WireHeader, <<"h", "i">> >> } :
           handleProxyRequestBegin(MaxWireReqs, method, hp[1], hp[2], rawQuery,
                                   payload[1], payload[2])
    \/ Respond
    \/ LiveMirror

WireSpec == InitWith({S3Local}, {TRUE}, Prefixes) /\ [][WireNext]_vars

----------------------------------------------------------------------------
(* Addressing specification: one PUT under the host names and paths the   *)
(* parser tells apart, with and without PROXY_DOMAIN, inventory disabled.  *)

ParseNext ==
    \* Host headers: the proxy domain, with a port, a bucket under it, a name
    \* that ends with its text, a single label, a name under another domain.
    \* URL paths: none (absolute-form request target without a path), the
    \* root, one segment, two segments
    \/ \E host \in { S3Local, S3Local \o Chars(":80"), BucketHost, Chars("xs3.local"),
                     Chars("localhost"), Chars("b.x.io") },
          urlPath \in { Empty, <<"/">>, <<"/", "b">>, <<"/", "b", "/", "k">> } :
           handleProxyRequestBegin(MaxParseReqs, "PUT", host, urlPath, Empty, << >>, Empty)
    \/ Respond
    \/ LiveMirror

ParseSpec == InitWith({Empty, S3Local}, {TRUE}, {Empty}) /\ [][ParseNext]_vars

----------------------------------------------------------------------------
(* Registry specification: PUT and DELETE of one object, all answered 2xx, *)
(* with a CREATE TABLE that may fail and the other statements succeeding.  *)

RegistryReceive ==
    \E rq \in KeyRequests :
        handleProxyRequestBegin(MaxRegistryReqs, rq[1], S3Local, <<"/", "b", "/", "k">>,
                                Empty, rq[2], rq[3])

RegistryNext ==
    \/ RegistryReceive
    \/ LiveRespond
    \/ EnsureBucket
    \/ KeyRecordPut
    \/ KeyRecordDelete
    \/ LiveMirror
    \/ KeyMarkBackedUp

RegistrySpec == KeyInit /\ [][RegistryNext]_vars

----------------------------------------------------------------------------
(* Lock specification: PUTs of key k in the buckets b and c, all answered  *)
(* 2xx, with getOrCreateBucketDB taken step by step and a CREATE TABLE     *)
(* that may fail.                                                          *)

MutexNext ==
    \/ \E urlPath \in { <<"/", "b", "/", "k">>, <<"/", "c", "/", "k">> } :
           handleProxyRequestBegin(MaxMutexReqs, "PUT", S3Local, urlPath, Empty,
                                   ContentTypeText, <<"h", "i">>)
    \/ LiveRespond
    \/ \E i \in 1..Len(tasks) : Lock(i)
    \/ \E i \in 1..Len(tasks), ok \in DbResults : verifyTable(i, ok)
    \/ \E i \in 1..Len(tasks) : register(i)
    \/ KeyRecordPut
    \/ LiveMirror
    \/ KeyMarkBackedUp

MutexSpec == KeyInit /\ [][MutexNext]_vars

----------------------------------------------------------------------------
(* Redirect specification: PUT and DELETE of one object, all answered 2xx  *)
(* by the primary, with a mirror that answers at once or after a 307.      *)

\* results of httpClient.Do(req) against a mirror that may redirect
RedirectNext ==
    \/ RegistryReceive
    \/ LiveRespond
    \/ KeyEnsureBucket
    \/ KeyRecordPut
    \/ KeyRecordDelete
    \* results of httpClient.Do(req) against a mirror that may redirect
    \/ \E i \in 1..Len(tasks),
          outcome \in KeyMirrorOutcomes \cup
                      { [err |-> FALSE, StatusCode |-> 200,
                         Location |-> <<"/", "b", "/", "k">>] } :
           mirrorToBackupS3(i, outcome)
    \/ KeyMarkBackedUp

RedirectSpec == KeyInit /\ [][RedirectNext]_vars

----------------------------------------------------------------------------
(* Two-key specification: PUT and DELETE of the keys k, j and b/k of       *)
(* bucket b, all answered 2xx, inventory statements succeeding, mirror may *)
(* fail.                                                                   *)

TwoKeyNext ==
    \* <<Host header, URL path>>: path-style k, path-style j, virtual-hosted b/k
    \/ \E rq \in KeyRequests,
          hp \in { <<S3Local, <<"/", "b", "/", "k">> >>,
                   <<S3Local, <<"/", "b", "/", "j">> >>,
                   <<BucketHost, <<"/", "b", "/", "k">> >> } :
           handleProxyRequestBegin(MaxTwoKeyReqs, rq[1], hp[1], hp[2], Empty, rq[2], rq[3])
    \/ LiveRespond
    \/ KeyEnsureBucket
    \/ KeyRecordPut
    \/ KeyRecordDelete
    \/ KeyMirror
    \/ KeyMarkBackedUp

TwoKeySpec == KeyInit /\ [][TwoKeyNext]_vars

----------------------------------------------------------------------------
(* Cancellation specification: PUT and DELETE of one object whose client   *)
(* may go away before the primary has answered; any answer of the primary. *)

CancelNext ==
    \/ RegistryReceive
    \/ \E h \in handlers : cancel(h)
    \/ Respond
    \/ KeyEnsureBucket
    \/ KeyRecordPut
    \/ KeyRecordDelete
    \/ LiveMirror
    \/ KeyMarkBackedUp

CancelSpec == KeyInit /\ [][CancelNext]_vars

----------------------------------------------------------------------------
(* Query specification: one request for /b/k with a query string, the      *)
(* inventory disabled.                                                     *)

QueryNext ==
    \* req.URL.RawQuery: none, a name alone, two names out of order, a repeated
    \* name with its values out of order, a value with a slash, a value with a
    \* space
    \/ \E method \in {"GET", "PUT", "DELETE"},
          rawQuery \in { Empty, Chars("tagging"), Chars("b=2&a=1"), Chars("a=2&a=1"),
                         Chars("prefix=a/b"), Chars("prefix=a%20b") } :
           handleProxyRequestBegin(MaxQueryReqs, method, S3Local, <<"/", "b", "/", "k">>,
                                   rawQuery, << >>, Empty)
    \/ Respond
    \/ LiveMirror

QuerySpec == InitWith({S3Local}, {TRUE}, Prefixes) /\ [][QueryNext]_vars

----------------------------------------------------------------------------
(* Properties of the dispatcher *)

Is2xx(status) == status >= 200 /\ status < 300

Mutating(method) == method \in {"PUT", "POST", "DELETE"}

C2_StylePreservation ==
    \A h \in handlers :
        IF ParsedVirtualHosted(h.Path, h.Host, proxyDomain)
        THEN /\ h.forwardReq.Host = h.bucket \o <<".">> \o mainS3Host
             /\ h.forwardReq.Path = h.Path
        ELSE /\ h.forwardReq.Host = mainS3Host
             /\ HasPrefix(h.forwardReq.Path, <<"/">> \o h.bucket)

\* the tasks that a step of the handler appended and that have work to do
Spawned == { i \in (Len(tasks) + 1)..Len(tasks') : tasks'[i].pc # "done" }

\* a step that inserts or changes an inventory row or issues a mirror request
DoesWork ==
    \/ tables' # tables
    \/ \E i \in 1..Len(tasks) : tasks'[i].sent # tasks[i].sent

\* C3: a finished request has started inventory and mirror work iff the
\* primary answered 2xx, bucket and key are non-empty and the method is PUT,
\* POST or DELETE, and then by exactly one task; every inventory change and
\* every mirror request is a step of such a task.
C3_WorkIffMutating2xx ==
    [][ /\ \A h \in handlers : h \notin handlers' =>
             /\ Cardinality(Spawned) =
                   IF /\ ~w'.err
                      /\ Is2xx(w'.StatusCode)
                      /\ h.bucket # Empty /\ h.key # Empty
                      /\ Mutating(h.Method)
                   THEN 1 ELSE 0
             /\ \A i \in Spawned :
                   /\ tasks'[i].bucket = h.bucket
                   /\ tasks'[i].key = h.key
                   /\ tasks'[i].method = h.Method
             /\ ~DoesWork
        /\ DoesWork =>
             \E i \in 1..Len(tasks) :
                 /\ tasks'[i] # tasks[i]
                 /\ Is2xx(tasks[i].status)
                 /\ tasks[i].bucket # Empty /\ tasks[i].key # Empty
                 /\ Mutating(tasks[i].method)
        /\ \A i \in 1..Len(tasks) :
             tasks[i].pc = "done" => tasks'[i] = tasks[i]
      ]_vars

\* a PUT answered 2xx has been recorded and replayed to the mirror
C3_Witness ==
    /\ Len(tasks) = 1
    /\ tasks[1].method = "PUT"
    /\ Is2xx(tasks[1].status)
    /\ Len(tasks[1].sent) = 1
    /\ \E n \in DOMAIN tables : tables[n].rows # {}

----------------------------------------------------------------------------
(* Properties of the inventory + mirror continuation *)

AllRows == UNION { tables[n].rows : n \in DOMAIN tables }

RowsFor(bucket, key) == { r \in RowsOf(sanitizeDBName(bucket)) : r.path = key }

\* the "needs repair" query: is_backed_up = false AND deleted = false
NeedsRepair(rows) == { r \in rows : ~r.is_backed_up /\ ~r.deleted }

AllDone == handlers = {} /\ \A i \in 1..Len(tasks) : tasks[i].pc = "done"

\* the record_put of task i has been applied
Recorded(i) ==
    /\ IsPut(tasks[i])
    /\ tasks[i].pc \in {"mirror", "mark_backed_up", "done"}
    /\ tasks[i].failed \notin {"ensure_bucket", "record_put"}

\* C4: a row with is_backed_up = true has had a successful mirror write of
\* its current generation, i.e. of the PUT whose record_put last wrote the row.
C4_BackedUpImpliesMirrored ==
    \A r \in AllRows : r.is_backed_up => tasks[r.gen].mirror = "ok"

\* C6: a task whose inventory step failed has still attempted the mirror
\* write when it ends, and the row is not marked backed up.
C6_MirrorAfterInventoryFailure ==
    \A i \in 1..Len(tasks) :
        ( /\ tasks[i].pc = "done"
          /\ tasks[i].failed \in {"ensure_bucket", "record_put", "record_delete"} )
        => /\ Len(tasks[i].sent) >= 1
           /\ \A r \in RowsFor(tasks[i].bucket, tasks[i].key) : ~r.is_backed_up

\* C7: when the mirror write of a task fails, the task does not go on to
\* mark_backed_up and the row of its key is in the needs-repair set.
C7_MirrorFailureLeavesRepairable ==
    [][ \A i \in 1..Len(tasks) :
          (tasks[i].mirror = "none" /\ tasks'[i].mirror = "failed") =>
              /\ tasks'[i].pc = "done"
              /\ \E r \in NeedsRepair(IF sanitizeDBName(tasks[i].bucket) \in DOMAIN tables'
                                      THEN tables'[sanitizeDBName(tasks[i].bucket)].rows
                                      ELSE {}) :
                    r.path = tasks[i].key
      ]_vars

C9_PutDeletePut ==
    (sequential /\ AllDone /\ Len(tasks) >= 1) =>
        /\ ( /\ Len(tasks) = 3
             /\ tasks[1].method = "PUT"
             /\ tasks[2].method = "DELETE"
             /\ tasks[3].method = "PUT" )
           => /\ Cardinality(RowsFor(tasks[3].bucket, tasks[3].key)) = 1
              /\ \A r \in RowsFor(tasks[3].bucket, tasks[3].key) :
                    /\ ~r.deleted
                    /\ r.size = fileSize(tasks[3].body, tasks[3].header)
                    /\ r.content_type = fileContentType(tasks[3].header)
        /\ \A i \in 1..Len(tasks) :
              (\A j \in (i + 1)..Len(tasks) :
                    tasks[j].bucket # tasks[i].bucket \/ tasks[j].key # tasks[i].key)
              => \A r \in RowsFor(tasks[i].bucket, tasks[i].key) :
                    r.deleted <=> (tasks[i].method = "DELETE")

\* a record_put statement for path of table n is applied in this step
PutApplied(n, path) ==
    \E i \in 1..Len(tasks) :
        /\ tasks[i].pc = "record_put" /\ tasks'[i].pc = "mirror"
        /\ sanitizeDBName(tasks[i].bucket) = n
        /\ tasks[i].key = path

\* C10: no step removes a row; a deleted row stays deleted in every step
\* (record_delete, mark_backed_up, ...) except a record_put of its path,
\* which sets deleted back to false.
C10_SoftDelete ==
    [][ \A n \in DOMAIN tables : \A r \in tables[n].rows :
          /\ \E r2 \in tables'[n].rows : r2.id = r.id /\ r2.path = r.path
          /\ r.deleted =>
                \A r2 \in tables'[n].rows :
                    r2.path = r.path => (r2.deleted <=> ~PutApplied(n, r.path))
      ]_vars

\* a row written once, then deleted twice, and marked backed up
C10_Witness ==
    /\ AllDone
    /\ Len(tasks) = 3
    /\ \E r \in AllRows :
          r.deleted /\ r.is_backed_up /\ r.gen = 1 /\ r.last_modified = 3

\* the row of task i's key is marked backed up
BackedUp(i) ==
    /\ i <= Len(tasks)
    /\ \E r \in RowsFor(tasks[i].bucket, tasks[i].key) : r.is_backed_up

\* the mirror write of the PUT/POST task i has succeeded
Mirrored(i) ==
    /\ i <= Len(tasks)
    /\ IsPut(tasks[i])
    /\ tasks[i].mirror = "ok"

----------------------------------------------------------------------------
(* Properties of the configuration *)

----------------------------------------------------------------------------
(* Ordering of the response and the background work *)

----------------------------------------------------------------------------
(* Addressing of the inventory and of the mirror *)

\* the request of task i was sent path-style: Host is the proxy's own name
\* (no bucket label) and the path is /<bucket>/<key>
SentPathStyle(i) ==
    /\ tasks[i].req.Host = S3Local
    /\ PathStyleParse(tasks[i].req.Path)[1] # Empty
    /\ PathStyleParse(tasks[i].req.Path)[2] # Empty

\* C13: a request sent path-style is attributed to the first segment of its
\* path: the task's bucket (hence its inventory table) is that segment and
\* its mirror request addresses MIRROR_BUCKET_PREFIX + that segment.
C13_PathStyleAttribution ==
    \A i \in 1..Len(tasks) : SentPathStyle(i) =>
        LET b == PathStyleParse(tasks[i].req.Path)[1] IN
        /\ tasks[i].bucket = b
        /\ \A n \in 1..Len(tasks[i].sent) :
               objectOf(tasks[i].sent[n].req, mirrorS3Host)[1]
                   = mirrorBucketOf(b, mirrorBucketPrefix)

\* the request handleProxyRequest forwards for (method, host, urlPath, body)
forwardedFor(method, host, urlPath, body) ==
    forwardReq(method, urlPath, Empty, << >>,
               extractBucketAndKey(urlPath, host, proxyDomain)[1], body)

\* C14: with PROXY_DOMAIN configured, a request for (b, k) sent
\* virtual-hosted (Host b.<proxy-domain>, path /k) and the same request sent
\* path-style (Host <proxy-domain>, path /b/k) are forwarded to the same
\* object of the primary, namely key k of bucket b.
C14_CrossStyleEquivalence ==
    \A h \in handlers :
        ( /\ proxyDomain # Empty
          /\ HasSuffix(h.Host, <<".">> \o proxyDomain)
          /\ TrimPrefix(h.Path, <<"/">>) # Empty )
        => LET b == TrimSuffix(h.Host, <<".">> \o proxyDomain)
               k == TrimPrefix(h.Path, <<"/">>)
               pathStyle == forwardedFor(h.Method, proxyDomain,
                                         <<"/">> \o b \o <<"/">> \o k, h.bodyBytes)
           IN  /\ objectOf(h.forwardReq, mainS3Host) = <<b, k>>
               /\ objectOf(pathStyle, mainS3Host) = <<b, k>>

\* C16: the mirror request of a task targets MIRROR_BUCKET_PREFIX + bucket
\* in the style of the inbound request: parsed virtual-hosted, host
\* <mirror bucket>.<mirror-host> and path /<key>; parsed path-style, host
\* <mirror-host> and path /<mirror bucket>/<key>.
C16_MirrorAddressing ==
    \A i \in 1..Len(tasks) : \A n \in 1..Len(tasks[i].sent) :
        LET t == tasks[i]
            mirrorBucket == mirrorBucketOf(t.bucket, mirrorBucketPrefix)
            r == t.sent[n].req
        IN  IF ParsedVirtualHosted(t.req.Path, t.req.Host, proxyDomain)
            THEN /\ r.Host = mirrorBucket \o <<".">> \o mirrorS3Host
                 /\ r.Path = <<"/">> \o t.key
            ELSE /\ r.Host = mirrorS3Host
                 /\ r.Path = <<"/">> \o mirrorBucket \o <<"/">> \o t.key

----------------------------------------------------------------------------
(* The mirror against the primary *)

\* the objects the mirror should hold: those of the primary, each in the
\* bucket MIRROR_BUCKET_PREFIX + bucket
ExpectedMirror ==
    { [bucket |-> mirrorBucketOf(x.bucket, mirrorBucketPrefix), key |-> x.key, body |-> x.body] :
        x \in primaryStore }

\* C15: after PUTs and DELETEs of one key, each sent after the previous
\* response, all answered 2xx and all mirrored successfully, once every
\* task has finished the mirror holds the key iff the primary holds it, with
\* the same bytes.
C15_MirrorConvergence ==
    ( /\ sequential
      /\ AllDone
      /\ Len(tasks) >= 1
      /\ \A i \in 1..Len(tasks) : tasks[i].mirror = "ok" )
    => mirrorStore = ExpectedMirror

----------------------------------------------------------------------------
(* Tables of the inventory *)

\* task i has applied its record_put or record_delete statement
Applied(i) ==
    /\ tasks[i].pc \in {"mirror", "mark_backed_up", "done"}
    /\ tasks[i].failed \notin {"ensure_bucket", "record_put", "record_delete"}

\* C17: tasks of two distinct buckets never apply their statements to the
\* same inventory row (the table of a bucket is the table of no other
\* bucket), and a table name consists of letters, digits and underscores.
C17_OneTablePerBucket ==
    /\ \A n \in DOMAIN tables : \A c \in 1..Len(n) : IsAlnum(n[c]) \/ n[c] = "_"
    /\ \A i, j \in 1..Len(tasks) :
          ( /\ Applied(i) /\ Applied(j)
            /\ sanitizeDBName(tasks[i].bucket) = sanitizeDBName(tasks[j].bucket)
            /\ tasks[i].key = tasks[j].key
            /\ RowsFor(tasks[i].bucket, tasks[i].key) # {} )
          => tasks[i].bucket = tasks[j].bucket

\* C18: the row written by a PUT holds the number of bytes of the PUT body
\* as size and the Content-Type of the PUT as content_type, is not deleted,
\* and is_backed_up is false until the task has marked it and true after.
C18_RowRecordsPut ==
    \A i \in 1..Len(tasks) :
        (tasks[i].method = "PUT" /\ Recorded(i)) =>
            \A r \in RowsFor(tasks[i].bucket, tasks[i].key) :
                r.gen = i =>
                    /\ r.size = Len(tasks[i].body)
                    /\ "Content-Type" \in DOMAIN tasks[i].req.Header
                          => r.content_type = tasks[i].req.Header["Content-Type"]
                    /\ ~r.deleted
                    /\ tasks[i].pc \in {"mirror", "mark_backed_up"} => ~r.is_backed_up
                    /\ (tasks[i].pc = "done" /\ tasks[i].mirror = "ok" /\ tasks[i].failed = "")
                          => r.is_backed_up

----------------------------------------------------------------------------
(* DELETE of a key the inventory does not know *)

\* C19: when the record_delete statement of a task is applied while the
\* key has no row, no table changes (no row is created), the task records
\* no failure and goes on to the mirror; when it has finished, it has sent
\* one DELETE to the mirror.
C19_DeleteOfAbsentKey ==
    [][ \A i \in 1..Len(tasks) :
          /\ ( /\ tasks[i].pc = "record_delete"
               /\ tasks'[i].pc # "record_delete"
               /\ RowsFor(tasks[i].bucket, tasks[i].key) = {} )
             => /\ tables' = tables
                /\ tasks'[i].failed = ""
                /\ tasks'[i].pc = "mirror"
          /\ (tasks[i].method = "DELETE" /\ tasks[i].pc = "mirror" /\ tasks'[i].pc # "mirror")
             => /\ tasks'[i].pc = "done"
                /\ Len(tasks'[i].sent) = 1
                /\ tasks'[i].sent[1].req.Method = "DELETE"
                /\ objectOf(tasks'[i].sent[1].req, mirrorS3Host)
                      = <<mirrorBucketOf(tasks[i].bucket, mirrorBucketPrefix), tasks[i].key>>
      ]_vars

\* a DELETE of a key without a row has finished and the mirror answered 2xx
C19_Witness ==
    \E i \in 1..Len(tasks) :
        /\ tasks[i].method = "DELETE"
        /\ tasks[i].pc = "done"
        /\ tasks[i].mirror = "ok"
        /\ sanitizeDBName(tasks[i].bucket) \in DOMAIN tables
        /\ AllRows = {}

----------------------------------------------------------------------------
(* Transport failure towards the primary *)

\* C20: the step in which a handler learns that the round trip to the
\* primary failed writes 502 to the client, starts no goroutine and changes
\* neither the inventory nor the stores.
C20_TransportFailure ==
    [][ \A h \in handlers :
          (h \notin handlers' /\ w'.err)
          => /\ w'.StatusCode = 502
             /\ w'.Body = BadGateway
             /\ tasks' = tasks
             /\ inventory' = inventory
             /\ primaryStore' = primaryStore
             /\ mirrorStore' = mirrorStore
      ]_vars

\* a PUT whose round trip failed has been answered 502, and nothing else happened
C20_Witness ==
    /\ nextReq = 1
    /\ handlers = {}
    /\ w.err
    /\ w.StatusCode = 502
    /\ tasks = << >>
    /\ tables = << >>

----------------------------------------------------------------------------
(* The requests that leave the proxy *)

\* the requests waiting at the primary, each with the header of its inbound request
PrimaryRequests == {[out |-> h.forwardReq, inbound |-> h.Header] : h \in handlers}

\* the requests sent to the mirror, each with the header of its inbound request
MirrorRequests ==
    {[out |-> tasks[i].sent[1].req, inbound |-> tasks[i].req.Header] :
        i \in {j \in 1..Len(tasks) : tasks[j].sent # << >>}}

\* strings.Index for any separator: 1-based position, 0 if absent
IndexOf(s, sep) ==
    IF \E i \in 1..(Len(s) - Len(sep) + 1) : SubSeq(s, i, i + Len(sep) - 1) = sep
    THEN CHOOSE i \in 1..(Len(s) - Len(sep) + 1) :
             /\ SubSeq(s, i, i + Len(sep) - 1) = sep
             /\ \A j \in 1..(i - 1) : SubSeq(s, j, j + Len(sep) - 1) # sep
    ELSE 0

\* the text between the first `open` and the next `close`
Between(s, open, close) ==
    LET rest == SubSeq(s, IndexOf(s, open) + Len(open), Len(s))
    IN  IF IndexOf(rest, close) = 0 THEN rest ELSE SubSeq(rest, 1, IndexOf(rest, close) - 1)

\* the components of an Authorization header
CredentialOf(authorization) == Between(authorization, Chars("Credential="), <<"/">>)
SignedHeadersOf(authorization) ==
    Between(authorization, Chars(", SignedHeaders="), Chars(", Signature="))

\* the Authorization header the signer computes for a request from a key pair
AuthorizationWith(out, accessKey, secretKey) ==
    signRequestV4WithBucket(
        [out EXCEPT !.Header = [k \in DOMAIN @ \ {"Authorization"} |-> @[k]]],
        accessKey, secretKey, usEast1, s3, out.Body).Header["Authorization"]

\* C21: an outbound request carries, besides the headers the signer sets,
\* only inbound headers named Content-* or X-Amz-*, with their inbound
\* values; no header of it has the value of the inbound Authorization; the
\* Authorization of a request to the primary names the main access key and
\* is the one computed from the main key pair, that of a request to the
\* mirror names the mirror access key and is the one computed from the
\* mirror key pair, and neither is the one computed from the other pair.
C21_CredentialSeparation ==
    /\ \A x \in PrimaryRequests \cup MirrorRequests :
          /\ \A k \in DOMAIN x.out.Header :
                \/ k \in {"X-Amz-Date", "X-Amz-Content-Sha256", "Authorization"}
                \/ /\ k \in DOMAIN x.inbound
                   /\ \/ HasPrefix(Chars(k), Chars("Content-"))
                      \/ HasPrefix(Chars(k), Chars("X-Amz-"))
                   /\ x.out.Header[k] = x.inbound[k]
          /\ "Authorization" \in DOMAIN x.inbound =>
                \A k \in DOMAIN x.out.Header : x.out.Header[k] # x.inbound["Authorization"]
    /\ \A x \in PrimaryRequests :
          /\ "Authorization" \in DOMAIN x.out.Header
          /\ CredentialOf(x.out.Header["Authorization"]) = mainAccessKey
          /\ x.out.Header["Authorization"]
                = AuthorizationWith(x.out, mainAccessKey, mainSecretKey)
          /\ x.out.Header["Authorization"]
                # AuthorizationWith(x.out, mirrorAccessKey, mirrorSecretKey)
    /\ \A x \in MirrorRequests :
          /\ "Authorization" \in DOMAIN x.out.Header
          /\ CredentialOf(x.out.Header["Authorization"]) = mirrorAccessKey
          /\ x.out.Header["Authorization"]
                = AuthorizationWith(x.out, mirrorAccessKey, mirrorSecretKey)
          /\ x.out.Header["Authorization"]
                # AuthorizationWith(x.out, mainAccessKey, mainSecretKey)

\* a request that came with an Authorization and a cookie has been replayed
\* to the mirror with its Content-Type and its X-Amz-Meta-A
C21_Witness ==
    \E x \in MirrorRequests :
        /\ {"Authorization", "Cookie"} \subseteq DOMAIN x.inbound
        /\ {"Content-Type", "X-Amz-Meta-A"} \subseteq DOMAIN x.out.Header

\* C22: the X-Amz-Content-Sha256 header of every outbound request, to the
\* primary and to the mirror, is the hex SHA-256 of the body of that
\* request, whatever X-Amz-Content-Sha256 the inbound request had.
C22_PayloadHash ==
    \A x \in PrimaryRequests \cup MirrorRequests :
        /\ "X-Amz-Content-Sha256" \in DOMAIN x.out.Header
        /\ x.out.Header["X-Amz-Content-Sha256"] = EncodeToString(Sum256(x.out.Body))

\* a DELETE that came with a body and its own X-Amz-Content-Sha256 has been
\* replayed to the mirror without a body
C22_Witness ==
    \E x \in MirrorRequests :
        /\ x.out.Method = "DELETE"
        /\ x.out.Body = Empty
        /\ "X-Amz-Content-Sha256" \in DOMAIN x.inbound
        /\ x.inbound["X-Amz-Content-Sha256"] # x.out.Header["X-Amz-Content-Sha256"]

\* C23: the SignedHeaders component of the Authorization of every outbound
\* request lists host, lists only headers the request has, and is exactly
\* host, content-type (if present) and the x-amz-* headers of the request,
\* in increasing order, each once.
C23_SignedHeadersClosure ==
    \A x \in PrimaryRequests \cup MirrorRequests :
        LET listed == Split(SignedHeadersOf(x.out.Header["Authorization"]), ";") IN
        /\ \E i \in 1..Len(listed) : listed[i] = Chars("host")
        /\ x.out.Host # Empty
        /\ \A i \in 1..Len(listed) :
              \/ listed[i] = Chars("host")
              \/ \E k \in DOMAIN x.out.Header : ToLower(Chars(k)) = listed[i]
        /\ {listed[i] : i \in 1..Len(listed)} =
              {Chars("host")}
              \cup {ToLower(Chars(k)) :
                       k \in {n \in DOMAIN x.out.Header :
                                 \/ ToLower(Chars(n)) = Chars("content-type")
                                 \/ HasPrefix(ToLower(Chars(n)), Chars("x-amz-"))}}
        /\ \A i \in 1..(Len(listed) - 1) : Less(listed[i], listed[i + 1])

\* a request with a Content-Type and an X-Amz-Meta-A has been signed for the mirror
C23_Witness ==
    \E x \in MirrorRequests :
        /\ {"Content-Type", "X-Amz-Meta-A"} \subseteq DOMAIN x.out.Header
        /\ Len(Split(SignedHeadersOf(x.out.Header["Authorization"]), ";")) = 5

----------------------------------------------------------------------------
(* The addressing parser *)

\* bucket = the first segment of the path, key = what follows its '/'
FirstSegment(urlPath) ==
    LET p == TrimPrefix(urlPath, <<"/">>) IN
    IF Index(p, "/") < 0 THEN <<p, Empty>>
    ELSE <<SubSeq(p, 1, Index(p, "/")), SubSeq(p, Index(p, "/") + 2, Len(p))>>

\* C24: with PROXY_DOMAIN set, a request whose host without its port is the
\* proxy domain gets bucket and key from the first '/' of its path; one
\* whose host ends with "." + the proxy domain gets the host without that
\* suffix as bucket and the path without its leading '/' as key; any other
\* host, one that ends with the text of the proxy domain without the dot
\* included, gets what the parser yields with no proxy domain set.
C24_ProxyDomainParsing ==
    \A h \in handlers : proxyDomain # Empty =>
        LET host == StripPort(h.Host) IN
        <<h.bucket, h.key>> =
            IF host = proxyDomain THEN FirstSegment(h.Path)
            ELSE IF HasSuffix(host, <<".">> \o proxyDomain)
            THEN <<TrimSuffix(host, <<".">> \o proxyDomain), TrimPrefix(h.Path, <<"/">>)>>
            ELSE extractBucketAndKey(h.Path, h.Host, Empty)

\* C25: a request whose host is neither the proxy domain nor under it gets,
\* when the host has two labels or more, the first label as bucket and the
\* path without its leading '/' as key (no key for the path "/" and for no
\* path), and is parsed by the first '/' of its path only when the host is
\* a single label.
C25_HostStructureParsing ==
    \A h \in handlers :
        LET host == StripPort(h.Host) IN
        ( \/ proxyDomain = Empty
          \/ (host # proxyDomain /\ ~HasSuffix(host, proxyDomain)) )
        => <<h.bucket, h.key>> =
              IF Len(Split(host, ".")) >= 2
              THEN <<Split(host, ".")[1], TrimPrefix(h.Path, <<"/">>)>>
              ELSE FirstSegment(h.Path)

----------------------------------------------------------------------------
(* Requests without a bucket or without a key *)

\* C26: a request for which the parser returned no bucket or no key is
\* forwarded with its method, path, query string and body; the step that
\* ends its handler writes the primary's answer, if there is one, to the
\* client, starts no goroutine and changes neither inventory nor mirror.
C26_UnaddressedForwarded ==
    [][ \A h \in handlers : (h.bucket = Empty \/ h.key = Empty) =>
          /\ h.forwardReq.Method = h.Method
          /\ h.forwardReq.Path = h.Path
          /\ h.forwardReq.RawQuery = h.RawQuery
          /\ h.forwardReq.Body = h.bodyBytes
          /\ h \notin handlers' =>
                /\ tasks' = tasks
                /\ inventory' = inventory
                /\ mirrorStore' = mirrorStore
                /\ ~w'.err =>
                      /\ w'.StatusCode = w'.resp.StatusCode
                      /\ w'.Header = w'.resp.Header
                      /\ w'.Body = w'.resp.Body
      ]_vars

\* a PUT on a bucket (no key) has been answered 2xx and nothing was started
C26_Witness ==
    /\ nextReq = 1
    /\ handlers = {}
    /\ ~w.err
    /\ Is2xx(w.StatusCode)
    /\ \E o \in primaryStore : o.key = Empty
    /\ tasks = << >>

----------------------------------------------------------------------------
(* What the mirror writer replays *)

\* C28: the request a task sends to the mirror has the method and the query
\* string of the inbound request, which are those of the forwarded request,
\* and for PUT and POST its body.
C28_MirrorReplayFidelity ==
    \A i \in 1..Len(tasks) : \A n \in 1..Len(tasks[i].sent) :
        /\ tasks[i].sent[n].req.Method = tasks[i].method
        /\ tasks[i].sent[n].req.RawQuery = tasks[i].req.RawQuery
        /\ IsPut(tasks[i]) => tasks[i].sent[n].req.Body = tasks[i].body

----------------------------------------------------------------------------
(* Order of the steps of one goroutine *)

\* C27: with the inventory enabled a goroutine begins at the inventory; a
\* PUT/POST goroutine reaches the mirror writer only from a record_put that
\* left a row of its key with is_backed_up = false and deleted = false, and
\* reaches mark_backed_up only in the step in which its own mirror request
\* succeeded; a DELETE goroutine reaches the mirror writer only from
\* record_delete and never reaches mark_backed_up; no step before the
\* mirror writer sends a mirror request, and the step of the mirror writer
\* leaves the inventory as it is.
C27_TaskOrder ==
    [][ /\ \A i \in (Len(tasks) + 1)..Len(tasks') :
              /\ tasks'[i].pc # "mark_backed_up"
              /\ tasks'[i].pc = "mirror" => disableDatabase
              /\ tasks'[i].sent = << >>
        /\ \A i \in 1..Len(tasks) :
              LET t == tasks[i]
                  u == tasks'[i]
              IN  /\ u.pc = "mirror" /\ t.pc # "mirror" =>
                        /\ t.pc = IF IsPut(t) THEN "record_put" ELSE "record_delete"
                        /\ IsPut(t) => \E r \in RowsFor(t.bucket, t.key)' :
                                          ~r.is_backed_up /\ ~r.deleted
                  /\ u.pc = "mark_backed_up" /\ t.pc # "mark_backed_up" =>
                        /\ IsPut(t)
                        /\ t.pc = "mirror"
                        /\ Len(u.sent) = Len(t.sent) + 1
                        /\ u.sent[Len(u.sent)].ok
                  /\ u.sent # t.sent =>
                        /\ t.pc = "mirror"
                        /\ inventory' = inventory
                  /\ t.pc = "mark_backed_up" /\ u.pc # t.pc => u.sent = t.sent
                  /\ ( /\ \E r \in RowsFor(t.bucket, t.key)' : r.is_backed_up
                       /\ \A r \in RowsFor(t.bucket, t.key) : ~r.is_backed_up )
                     => \E j \in 1..Len(tasks) :
                            /\ tasks[j].pc = "mark_backed_up"
                            /\ tasks'[j].pc = "done"
                            /\ tasks[j].mirror = "ok"
      ]_vars

\* a PUT has gone through record_put, a successful mirror write and mark_backed_up
C27_Witness ==
    \E i \in 1..Len(tasks) :
        /\ ~disableDatabase
        /\ tasks[i].method = "PUT"
        /\ tasks[i].pc = "done"
        /\ Len(tasks[i].sent) = 1
        /\ tasks[i].sent[1].ok
        /\ \E r \in RowsFor(tasks[i].bucket, tasks[i].key) : r.is_backed_up /\ r.gen = i

----------------------------------------------------------------------------
(* What record_put stores *)

\* C29: the row left by the record_put of a task has as size the number in
\* the Content-Length of the primary's response when the response has one
\* that parses, and the length of the request body otherwise; as
\* content_type the Content-Type of the response, or
\* application/octet-stream when the response has none. The Content-Type of
\* the request plays no part.
C29_RecordedSizeAndType ==
    [][ \A i \in 1..Len(tasks) :
          (tasks[i].pc = "record_put" /\ tasks'[i].pc = "mirror") =>
              LET t == tasks[i]
                  cl == IF "Content-Length" \in DOMAIN t.header
                        THEN t.header["Content-Length"] ELSE Empty
                  ct == IF "Content-Type" \in DOMAIN t.header
                        THEN t.header["Content-Type"] ELSE Empty
              IN  \E r \in RowsFor(t.bucket, t.key)' :
                      /\ r.size = IF cl # Empty /\ Atoi(cl)[1] THEN Atoi(cl)[2]
                                  ELSE Len(t.body)
                      /\ r.content_type = IF ct # Empty THEN ct ELSE OctetStream
      ]_vars

\* a PUT of two bytes sent as text/plain, answered without Content-Length
\* and Content-Type, has its row with size 2 and application/octet-stream
C29_Witness ==
    \E i \in 1..Len(tasks) :
        /\ tasks[i].body = <<"h", "i">>
        /\ tasks[i].req.Header = ContentTypeText
        /\ tasks[i].header = << >>
        /\ \E r \in RowsFor(tasks[i].bucket, tasks[i].key) :
              r.size = 2 /\ r.content_type = OctetStream

----------------------------------------------------------------------------
(* The registry of verified buckets *)

\* C30: a task is at one of its inventory statements only when its bucket
\* is in the registry and the table of the bucket has been created; a bucket
\* enters the registry only in a step of getOrCreateBucketDB that leaves its
\* table created; and the step of a failed CREATE TABLE changes neither the
\* registry nor the tables, so that the bucket is still outside the
\* registry for the next task.
C30_DDLBeforeDML ==
    [][ /\ \A i \in 1..Len(tasks) :
              tasks[i].pc \in {"record_put", "record_delete", "mark_backed_up"} =>
                  /\ tasks[i].bucket \in dbConnections
                  /\ sanitizeDBName(tasks[i].bucket) \in DOMAIN tables
        /\ \A b \in dbConnections' \ dbConnections :
              /\ sanitizeDBName(b) \in DOMAIN tables'
              /\ \E i \in 1..Len(tasks) :
                    /\ tasks[i].bucket = b
                    /\ tasks[i].pc = "getOrCreateBucketDB"
                    /\ tasks'[i].pc \in {"record_put", "record_delete"}
        /\ \A i \in 1..Len(tasks) :
              (tasks[i].failed = "" /\ tasks'[i].failed = "ensure_bucket") =>
                  /\ dbConnections' = dbConnections
                  /\ tables' = tables
                  /\ tasks[i].bucket \notin dbConnections'
        /\ dbConnections \subseteq dbConnections'
      ]_vars

\* after a task whose CREATE TABLE failed, the next task of the bucket has
\* created the table and run its statement
C30_Witness ==
    /\ Len(tasks) = 2
    /\ tasks[1].failed = "ensure_bucket"
    /\ tasks[2].bucket = tasks[1].bucket
    /\ tasks[2].bucket \in dbConnections
    /\ Applied(2)

----------------------------------------------------------------------------
(* The registry lock *)

\* the goroutines between Lock and the deferred Unlock
InCriticalSection == {i \in 1..Len(tasks) : tasks[i].pc \in {"locked", "created"}}

\* C31: in every interleaving at most one goroutine is between the Lock
\* and the Unlock of getOrCreateBucketDB, and it is the one recorded as the
\* holder; CREATE TABLE has succeeded at most once for each bucket name; the
\* registry never loses a bucket; and whenever a goroutine waits for the
\* lock, the lock is free or its holder can take a step.
C31_RegistryMemoization ==
    [][ /\ Cardinality(InCriticalSection) <= 1
        /\ Cardinality(InCriticalSection') <= 1
        /\ InCriticalSection' = IF dbMutex' = 0 THEN {} ELSE {dbMutex'}
        /\ \A b \in DOMAIN created' : created'[b] <= 1
        /\ dbConnections \subseteq dbConnections'
        /\ \A b \in dbConnections' : b \in DOMAIN created'
        /\ (\E i \in 1..Len(tasks') : tasks'[i].pc = "getOrCreateBucketDB") =>
              \/ dbMutex' = 0
              \/ tasks'[dbMutex'].pc \in {"locked", "created"}
      ]_vars

\* a goroutine has created the table of its bucket and not yet registered
\* it, while a goroutine of the same bucket and one of another bucket wait
\* for the lock
C31_Witness ==
    \E i, j, k \in 1..Len(tasks) :
        /\ tasks[i].pc = "created"
        /\ tasks[j].pc = "getOrCreateBucketDB"
        /\ tasks[j].bucket = tasks[i].bucket
        /\ tasks[k].pc = "getOrCreateBucketDB"
        /\ tasks[k].bucket # tasks[i].bucket

----------------------------------------------------------------------------
(* Requests per task *)

\* C32: a goroutine puts at most one request to the mirror on the wire,
\* whatever the mirror answers, and it has returned once it has sent it and
\* finished its inventory statements.
C32_NoRetries ==
    \A i \in 1..Len(tasks) :
        /\ Len(tasks[i].sent) <= 1
        /\ tasks[i].pc \in {"getOrCreateBucketDB", "record_put", "record_delete", "mirror"}
              => tasks[i].sent = << >>

----------------------------------------------------------------------------
(* Keys of one bucket *)

\* the mirror's objects of key y of bucket b
MirrorObjects(b, y) ==
    {x \in mirrorStore : x.bucket = mirrorBucketOf(b, mirrorBucketPrefix) /\ x.key = y}

\* C33: in every step, the inventory row or the mirror object of a key of
\* a bucket changes only if a goroutine working on that key of that bucket
\* takes the step; handlers and goroutines of other keys leave them as they
\* are.
C33_KeyIndependence ==
    [][ \A b \in {tasks'[i].bucket : i \in 1..Len(tasks')} :
          \A y \in {tasks'[i].key : i \in 1..Len(tasks')}
                    \cup {r.path : r \in AllRows \cup AllRows'}
                    \cup {x.key : x \in mirrorStore \cup mirrorStore'} :
              (RowsFor(b, y)' # RowsFor(b, y) \/ MirrorObjects(b, y)' # MirrorObjects(b, y)) =>
                  \E i \in 1..Len(tasks) :
                      /\ tasks[i].bucket = b
                      /\ tasks[i].key = y
                      /\ tasks'[i].pc # tasks[i].pc
      ]_vars

\* the DELETE of one key has been recorded and mirrored while the row of
\* another key of the bucket is backed up and its object is at the mirror
C33_Witness ==
    \E i, j \in 1..Len(tasks) :
        /\ tasks[i].bucket = tasks[j].bucket
        /\ tasks[i].key # tasks[j].key
        /\ tasks[i].method = "DELETE" /\ tasks[i].pc = "done" /\ tasks[i].mirror = "ok"
        /\ tasks[j].method = "PUT"
        /\ \E r \in RowsFor(tasks[j].bucket, tasks[j].key) : r.is_backed_up /\ ~r.deleted
        /\ MirrorObjects(tasks[j].bucket, tasks[j].key) # {}

----------------------------------------------------------------------------
(* Cancellation *)

\* C34: a handler whose client has gone away ends with its round trip to
\* the primary aborted, that is with an error of httpClient.Do and without
\* starting a goroutine; and the step in which a client goes away changes no
\* goroutine that has been started.
C34_Cancellation ==
    [][ /\ \A h \in handlers :
              (h.cancelled /\ h \notin handlers') => (w'.err /\ tasks' = tasks)
        /\ (\E h \in handlers' : h.cancelled /\ h \notin handlers) => tasks' = tasks
      ]_vars

----------------------------------------------------------------------------
(* The canonical query string *)

\* C35: for every forwarded request the signer's canonical query string is
\* the one the rules give for its query: names sorted, values of a repeated
\* name sorted, name= for an empty value, every byte outside the unreserved
\* set as %XX (a slash as %2F, a space as %20), joined by &, and empty when
\* there is no parameter.
C35_CanonicalQueryString ==
    \A h \in handlers :
        LET canonical == createCanonicalQueryString(h.forwardReq)
            q == h.RawQuery
        IN  /\ q = Empty => canonical = Empty
            /\ q = Chars("tagging") => canonical = Chars("tagging=")
            /\ q = Chars("b=2&a=1") => canonical = Chars("a=1&b=2")
            /\ q = Chars("a=2&a=1") => canonical = Chars("a=1&a=2")
            /\ q = Chars("prefix=a/b") => canonical = Chars("prefix=a%2Fb")
            /\ q = Chars("prefix=a%20b") => canonical = Chars("prefix=a%20b")

----------------------------------------------------------------------------
(* Frame of the two UPDATE statements *)

\* C36: a mark_backed_up step and a record_delete step of a goroutine keep
\* the rows of every table one for one: no row appears or disappears, a row
\* with another path is unchanged, and in a row with the path of the
\* goroutine's key only is_backed_up (mark_backed_up), or only deleted and
\* last_modified (record_delete), may differ.
C36_UpdateFrame ==
    [][ \A i \in 1..Len(tasks) :
          (tasks[i].pc \in {"mark_backed_up", "record_delete"} /\ tasks'[i].pc # tasks[i].pc) =>
              /\ DOMAIN tables' = DOMAIN tables
              /\ \A n \in DOMAIN tables :
                    /\ {r.id : r \in tables'[n].rows} = {r.id : r \in tables[n].rows}
                    /\ Cardinality(tables'[n].rows) = Cardinality(tables[n].rows)
                    /\ \A new \in tables'[n].rows : \E old \in tables[n].rows :
                          /\ old.id = new.id
                          /\ old.path = new.path
                          /\ old.size = new.size
                          /\ old.content_type = new.content_type
                          /\ old.path # tasks[i].key => new = old
                          /\ n # sanitizeDBName(tasks[i].bucket) => new = old
                          /\ tasks[i].pc = "mark_backed_up" =>
                                /\ old.deleted = new.deleted
                                /\ old.last_modified = new.last_modified
                          /\ tasks[i].pc = "record_delete" =>
                                old.is_backed_up = new.is_backed_up
      ]_vars

\* the row of a PUT has been marked backed up and then marked deleted by
\* the DELETE of its key
C36_Witness ==
    \E i, j \in 1..Len(tasks) :
        /\ tasks[i].method = "PUT" /\ tasks[i].pc = "done" /\ tasks[i].failed = ""
        /\ tasks[j].method = "DELETE" /\ tasks[j].pc \in {"mirror", "done"}
        /\ tasks[j].key = tasks[i].key
        /\ \E r \in RowsFor(tasks[i].bucket, tasks[i].key) :
              r.deleted /\ r.is_backed_up /\ r.size = 2

----------------------------------------------------------------------------
(* Canonical headers against SignedHeaders *)

\* C37: for every outbound request, the names of the lines of the
\* canonical-headers block are, line for line, the names of the
\* SignedHeaders list of its Authorization; they are in strictly increasing
\* order, hence each once; host, x-amz-date and x-amz-content-sha256 are
\* among them, and content-type when the request has one; and the value of
\* the host line is the Host of the request.
C37_CanonicalMatchesSigned ==
    \A x \in PrimaryRequests \cup MirrorRequests :
        LET block == createCanonicalHeaders(x.out)
            lines == Split(SubSeq(block, 1, Len(block) - 1), "\n")
            names == [i \in 1..Len(lines) |-> SplitN2(lines[i], ":")[1]]
            listed == Split(SignedHeadersOf(x.out.Header["Authorization"]), ";")
        IN  /\ block[Len(block)] = "\n"
            /\ names = listed
            /\ \A i \in 1..(Len(names) - 1) : Less(names[i], names[i + 1])
            /\ \A n \in {Chars("host"), Chars("x-amz-date"), Chars("x-amz-content-sha256")} :
                  \E i \in 1..Len(names) : names[i] = n
            /\ "Content-Type" \in DOMAIN x.out.Header =>
                  \E i \in 1..Len(names) : names[i] = Chars("content-type")
            /\ \A i \in 1..Len(lines) :
                  names[i] = Chars("host") => SplitN2(lines[i], ":")[2] = x.out.Host

\* a virtual-hosted request with a Content-Type and an X-Amz-Meta-A has been
\* signed for the primary
C37_Witness ==
    \E x \in PrimaryRequests :
        /\ x.out.Host = <<"b", ".">> \o mainS3Host
        /\ {"Content-Type", "X-Amz-Meta-A"} \subseteq DOMAIN x.out.Header
        /\ Len(Split(createCanonicalHeaders(x.out), "\n")) = 6

====
